---- MODULE Spec2Model ----
\* Verification model of the provisioning / deprovisioning core of
\* Marzban-Manager: the panel API client (MarzbanClient._request), the
\* cascading node deletion (NodeService.delete_node) and the background job
\* manager with the provisioning task (JobManager, _run_ssh_installation).
EXTENDS Integers, Sequences, FiniteSets, TLC

None == "None"

\* ---------------------------------------------------------------------
\* Bounds of the model
\* ---------------------------------------------------------------------
MaxRetriesBound == 3      \* largest configured max_connection_retries explored
MaxCalls == 2             \* concurrent cancel_job / delete_job calls
MaxJobs == 1              \* jobs created through start_ssh_install
MaxWorkSteps == 2         \* operations of an arbitrary task_fn between its awaits
MaxClock == 3             \* no _request call begins after this many seconds
MaxProbes == 3            \* test_connection calls on one SSHClient object
MaxTextLen == 5           \* symbols in a command output
MaxStrips == 2            \* successive applications of _strip_ansi
MaxListed == 3            \* jobs in the registry that list_jobs reads
MaxFrameJobs == 2         \* jobs that run side by side
MaxRegIds == 3            \* distinct job ids in the registry's lifetime
MaxTicks == 2             \* the clock stops after this many times the TTL (and a second)

\* ---------------------------------------------------------------------
\* Program constants
\* ---------------------------------------------------------------------
TokenBufferSeconds == 300        \* timedelta(minutes=5)
TokenValiditySeconds == 86400    \* timedelta(hours=24)

VARIABLES
    \* MarzbanClient
    _token,            \* the cached TokenInfo, if any
    _max_retries,      \* settings.max_connection_retries
    has_credentials,   \* username and password were given to the client
    now,               \* datetime.utcnow(), in seconds
    req,               \* the _request call in progress (frame of the coroutine)
    obs,               \* what the panel observed of the call (history)
    \* NodeService.delete_node
    del,               \* the delete_node call in progress
    node_row,          \* the local node record
    \* JobManager and the provisioning task
    job,               \* Job objects, by id
    _jobs,             \* registry: ids of JobManager._jobs
    _tasks,            \* ids that have an entry in JobManager._tasks
    task,              \* the asyncio task of each job
    _lock,             \* holder of JobManager._lock
    calls,             \* cancel_job / delete_job calls in progress
    \* SSHClient.test_connection
    ssh,               \* the client object and the test_connection call
    \* NodeManagerClient: the output of one install command
    parse,             \* the output, what was stripped and parsed from it
    \* JobManager.list_jobs
    listing            \* a registry, a query and the list returned for it

vars == <<_token, _max_retries, has_credentials, now, req, obs,
          del, node_row, job, _jobs, _tasks, task, _lock, calls, ssh, parse, listing>>

httpVars == <<_token, _max_retries, has_credentials, now, req, obs>>
delVars == <<del, node_row>>
jobVars == <<job, _jobs, _tasks, task, _lock, calls>>
sshVars == <<ssh>>
textVars == <<parse>>
listVars == <<listing>>

\* =====================================================================
\* Panel API client: MarzbanClient
\* =====================================================================

\* Outcomes of one HTTP exchange with the panel.
Responses == {"2xx", "401", "404", "5xx", "4xx", "timeout", "network"}
AuthResponses == {"200", "401", "error"}

\* self._token: no token, a token without expiry, a token with expires_at
NoToken == [present |-> FALSE, has_expiry |-> FALSE, expires_at |-> 0]
TokenInfo(has_expiry, expires_at) ==
    [present |-> TRUE, has_expiry |-> has_expiry, expires_at |-> expires_at]

\* TokenInfo.is_expired
is_expiredWithoutBuffer(tok, t) ==
    IF ~tok.has_expiry THEN FALSE
    ELSE t >= tok.expires_at

\* TokenInfo.is_expired at time t
is_expired(tok, t) ==
    IF ~tok.has_expiry THEN FALSE
    ELSE t >= tok.expires_at - TokenBufferSeconds

needs_authenticateOnlyWithoutToken(tok, t) == ~tok.present

\* _ensure_authenticated: does it call authenticate()?
needs_authenticate(tok, t) == ~tok.present \/ is_expired(tok, t)

\* The body of the try block of _request for one response: what it does
\* with the response of client.request.
OnResponse(r, retry_auth) ==
    CASE r = "401" -> IF retry_auth THEN "reauthenticate" ELSE "MarzbanAuthError"
      [] r = "404" -> "MarzbanNotFoundError"
      [] r = "5xx" -> "MarzbanServerError"
      [] r = "4xx" -> "HTTPStatusError"
      [] r = "timeout" -> "TimeoutException"
      [] r = "network" -> "NetworkError"
      [] OTHER -> "return"

Caught404Retried(exc) ==
    CASE exc = "TimeoutException" -> [caught |-> TRUE, reraise |-> FALSE, last_error |-> "MarzbanConnectionError"]
      [] exc = "NetworkError" -> [caught |-> TRUE, reraise |-> FALSE, last_error |-> "MarzbanConnectionError"]
      [] exc = "MarzbanAuthError" -> [caught |-> TRUE, reraise |-> TRUE, last_error |-> exc]
      [] exc = "MarzbanNotFoundError" -> [caught |-> TRUE, reraise |-> FALSE, last_error |-> "MarzbanClientError"]
      [] exc = "HTTPStatusError" -> [caught |-> TRUE, reraise |-> FALSE, last_error |-> "MarzbanClientError"]
      [] OTHER -> [caught |-> FALSE, reraise |-> TRUE, last_error |-> exc]

\* The except clauses of the retry loop: is the exception caught, is it
\* raised again, and which error is remembered as last_error.
Caught(exc) ==
    CASE exc = "TimeoutException" -> [caught |-> TRUE, reraise |-> FALSE, last_error |-> "MarzbanConnectionError"]
      [] exc = "NetworkError" -> [caught |-> TRUE, reraise |-> FALSE, last_error |-> "MarzbanConnectionError"]
      [] exc \in {"MarzbanAuthError", "MarzbanNotFoundError"} -> [caught |-> TRUE, reraise |-> TRUE, last_error |-> exc]
      [] exc = "HTTPStatusError" -> [caught |-> TRUE, reraise |-> FALSE, last_error |-> "MarzbanClientError"]
      [] OTHER -> [caught |-> FALSE, reraise |-> TRUE, last_error |-> exc]

\* "if attempt < self._max_retries - 1": a backoff sleep follows the attempt
backs_off(attempt, max_retries) == attempt < max_retries - 1

\* delay = 2 ** attempt
backoff_delay(attempt) == 2 ^ attempt

ReqIdle == [pc |-> "idle", attempt |-> 0, retry_auth |-> TRUE,
            last_error |-> None, auth_for |-> None, outcome |-> None]

ObsInit == [requests |-> 0, auth_posts |-> 0, reauths |-> 0, backoffs |-> 0,
            after_reauth |-> 0, last_response |-> None, slept |-> 0]

TokenInits == {NoToken, TokenInfo(FALSE, 0), TokenInfo(TRUE, 240), TokenInfo(TRUE, 300),
               TokenInfo(TRUE, 301), TokenInfo(TRUE, 600)}

HttpInit ==
    /\ _token \in TokenInits
    /\ _max_retries \in 1..MaxRetriesBound
    /\ has_credentials \in BOOLEAN
    /\ now = 0
    /\ req = ReqIdle
    /\ obs = ObsInit

\* the call ends by raising exc (or returning when exc = "return")
Finish(exc) == [req EXCEPT !.pc = "done", !.outcome = exc]

\* "for attempt in range(...)": the loop issues client.request for attempt a;
\* an empty range falls through to the final raise.
SendAttempt(frame, a) ==
    IF a < _max_retries
    THEN /\ req' = [frame EXCEPT !.pc = "request", !.attempt = a]
         /\ obs' = [obs EXCEPT !.requests = @ + 1,
                               !.after_reauth = IF obs.reauths > 0 THEN @ + 1 ELSE @]
    ELSE /\ req' = [frame EXCEPT !.pc = "done",
                       !.outcome = IF frame.last_error = None
                                   THEN "MarzbanConnectionError" ELSE frame.last_error]
         /\ obs' = obs

\* _request up to its first suspension: _ensure_authenticated, then the
\* first attempt of the loop.
RequestCall ==
    /\ req.pc = "idle"
    /\ now < MaxClock
    /\ IF needs_authenticate(_token, now)
       THEN IF ~has_credentials
            THEN /\ req' = Finish("MarzbanAuthError")
                 /\ obs' = obs
            ELSE /\ req' = [req EXCEPT !.pc = "auth_post", !.auth_for = "ensure"]
                 /\ obs' = [obs EXCEPT !.auth_posts = @ + 1]
       ELSE SendAttempt(req, 0)
    /\ UNCHANGED <<_token, _max_retries, has_credentials, now>>

\* authenticate(): the response of POST /api/admin/token arrives.
AuthRespond(r) ==
    /\ req.pc = "auth_post"
    /\ CASE r = "200" ->
              /\ _token' = TokenInfo(TRUE, now + TokenValiditySeconds)
              /\ IF req.auth_for = "ensure"
                 THEN SendAttempt(req, 0)
                 ELSE \* return await self._request(..., retry_auth=False)
                      SendAttempt([req EXCEPT !.retry_auth = FALSE, !.last_error = None], 0)
         [] r = "401" ->
              /\ req' = Finish("MarzbanAuthError")
              /\ UNCHANGED <<_token, obs>>
         [] OTHER ->
              /\ req' = Finish("MarzbanConnectionError")
              /\ UNCHANGED <<_token, obs>>
    /\ UNCHANGED <<_max_retries, has_credentials, now>>

\* The response of client.request arrives and the loop body handles it up
\* to the next suspension (backoff sleep, re-authentication) or the end.
Respond(r) ==
    /\ req.pc = "request"
    /\ LET act == OnResponse(r, req.retry_auth)
           c == Caught(act)
           seen == [obs EXCEPT !.last_response = r]
       IN CASE act = "return" ->
                 /\ req' = Finish("return")
                 /\ obs' = seen
            [] act = "reauthenticate" ->
                 IF ~has_credentials
                 THEN /\ req' = Finish("MarzbanAuthError")
                      /\ obs' = [seen EXCEPT !.reauths = @ + 1]
                 ELSE /\ req' = [req EXCEPT !.pc = "auth_post", !.auth_for = "reauth"]
                      /\ obs' = [seen EXCEPT !.reauths = @ + 1, !.auth_posts = @ + 1]
            [] OTHER ->
                 IF c.reraise
                 THEN /\ req' = Finish(c.last_error)
                      /\ obs' = seen
                 ELSE IF backs_off(req.attempt, _max_retries)
                      THEN /\ req' = [req EXCEPT !.pc = "backoff", !.last_error = c.last_error]
                           /\ obs' = [seen EXCEPT !.backoffs = @ + 1,
                                                  !.slept = @ + backoff_delay(req.attempt)]
                      ELSE /\ req' = Finish(c.last_error)
                           /\ obs' = seen
    /\ UNCHANGED <<_token, _max_retries, has_credentials, now>>

\* asyncio.sleep(delay) ends, delay seconds later: the loop goes on with
\* the next attempt.
BackoffDone ==
    /\ req.pc = "backoff"
    /\ now' = now + backoff_delay(req.attempt)
    /\ SendAttempt(req, req.attempt + 1)
    /\ UNCHANGED <<_token, _max_retries, has_credentials>>

\* MarzbanClient.test_connection around get_current_admin (one _request):
\* what it hands its caller for each way the _request ended.  Only
\* MarzbanAuthError and MarzbanConnectionError have an except clause.
test_connection(outcome) ==
    CASE outcome = "return" ->
            [raises |-> None, connected |-> "true", error |-> None]
      [] outcome = "MarzbanAuthError" ->
            [raises |-> None, connected |-> "false", error |-> "Invalid credentials"]
      [] outcome = "MarzbanConnectionError" ->
            [raises |-> None, connected |-> "false", error |-> "str(e)"]
      [] OTHER ->
            [raises |-> outcome, connected |-> None, error |-> None]

\* The caller got the result; the client is used for the next call.
RequestReturn ==
    /\ req.pc = "done"
    /\ req' = ReqIdle
    /\ obs' = ObsInit
    /\ UNCHANGED <<_token, _max_retries, has_credentials, now>>


\* =====================================================================
\* Deprovisioning: NodeService.delete_node
\* =====================================================================

\* What the panel answers to get_nodes / delete_node, reduced to what
\* _delete_from_marzban distinguishes.
ListOutcomes == {"match", "no_match", "match_without_id", "raises"}
CallOutcomes == {"ok", "raises"}
ExecOutcomes == {"exit_0", "exit_nonzero", "raises"}
DbOutcomes == {"ok", "delete_raises", "audit_raises"}

\* SSHProfileID of a node row: 0 stands for no profile ("if not ssh_profile_id")
NoProfile == 0
NodeRows == [exists : BOOLEAN, ssh_profile_id : {NoProfile, 1}]

\* Optional[bool] values of the result: None, "true", "false"
ResultInit == [success |-> FALSE, local |-> FALSE, marzban |-> None, server |-> None]

DelIdle == [pc |-> "idle", dm |-> FALSE, ds |-> FALSE, existed |-> FALSE,
            profile |-> NoProfile, result |-> ResultInit, errors |-> <<>>,
            exc |-> None, ret |-> None, trace |-> <<>>, ssh_open |-> FALSE,
            raised |-> FALSE]

DelInit ==
    /\ del = DelIdle
    /\ node_row \in NodeRows

SuccessAllLayers(result) ==
    result.local /\ result.marzban # "false" /\ result.server # "false"

\* "result.success = result.local"
Success(result) == result.local

LayerAbortsOnRaise(value) ==
    IF value = "raises"
    THEN [set |-> "false", error |-> <<>>, propagate |-> TRUE]
    ELSE IF value = "true"
         THEN [set |-> "true", error |-> <<>>, propagate |-> FALSE]
         ELSE [set |-> "false", error |-> <<"not_done">>, propagate |-> FALSE]

\* The try/except around one optional layer: value is what the awaited
\* helper returned ("true" / "false") or "raises". The layer's flag is set to
\* the returned value, a message is appended when it is not TRUE, and no
\* exception leaves the block.
Layer(value) ==
    IF value = "raises"
    THEN [set |-> "false", error |-> <<"raised">>, propagate |-> FALSE]
    ELSE IF value = "true"
         THEN [set |-> "true", error |-> <<>>, propagate |-> FALSE]
         ELSE [set |-> "false", error |-> <<"not_done">>, propagate |-> FALSE]

Tag(layer, errs) == [i \in 1..Len(errs) |-> <<layer, errs[i]>>]

\* 3. local deletion, the end of delete_node. db is what the database does.
Local(f, db) ==
    LET deleted == db # "delete_raises" /\ node_row.exists
        errs == IF db = "delete_raises" \/ (deleted /\ db = "audit_raises")
                THEN f.errors \o <<<<"local", "raised">>>> ELSE f.errors
        res == [f.result EXCEPT !.local = deleted]
    IN [f EXCEPT !.pc = "done",
                 !.errors = errs,
                 !.result = [res EXCEPT !.success = Success(res)],
                 !.trace = @ \o <<"local">>]

\* an exception leaves delete_node
Propagate(f) == [f EXCEPT !.pc = "done", !.raised = TRUE]

\* 2. the server layer ended with value
ServerEnd(f, value, db) ==
    LET l == Layer(value)
        g == [f EXCEPT !.result.server = l.set,
                       !.errors = @ \o Tag("server", l.error),
                       !.trace = @ \o <<"server_end">>]
    IN IF l.propagate THEN Propagate(g) ELSE Local(g, db)

ServerBeginWithoutProfileCheck(f, creds_found, db) ==
    IF ~f.ds THEN Local(f, db)
    ELSE LET g == [f EXCEPT !.result.server = "false",
                            !.trace = @ \o <<"server_begin">>]
         IN IF ~creds_found
            THEN ServerEnd(g, "raises", db)
            ELSE [g EXCEPT !.pc = "server_connect"]

\* 2. the server layer begins (or is skipped)
ServerBegin(f, creds_found, db) ==
    IF ~f.ds THEN Local(f, db)
    ELSE LET g == [f EXCEPT !.result.server = "false",
                            !.trace = @ \o <<"server_begin">>]
         IN IF g.profile = NoProfile
            THEN Local([g EXCEPT !.errors = @ \o <<<<"server", "no_ssh_profile">>>>,
                                 !.trace = @ \o <<"server_end">>], db)
            ELSE IF ~creds_found
                 THEN ServerEnd(g, "raises", db)
                 ELSE [g EXCEPT !.pc = "server_connect"]

\* 1. the panel layer ended with value
MarzbanEnd(f, value, creds_found, db) ==
    LET l == Layer(value)
        g == [f EXCEPT !.result.marzban = l.set,
                       !.errors = @ \o Tag("marzban", l.error),
                       !.trace = @ \o <<"marzban_end">>]
    IN IF l.propagate THEN Propagate(g) ELSE ServerBegin(g, creds_found, db)

\* 1. the panel layer begins (or is skipped)
MarzbanBegin(f, client_found, creds_found, db) ==
    IF ~f.dm THEN ServerBegin(f, creds_found, db)
    ELSE LET g == [f EXCEPT !.result.marzban = "false",
                            !.trace = @ \o <<"marzban_begin">>]
         IN IF ~client_found
            THEN MarzbanEnd(g, "raises", creds_found, db)
            ELSE [g EXCEPT !.pc = "marzban_list"]

\* the local record is gone once a call reports local = TRUE
RowAfter(f) ==
    [node_row EXCEPT !.exists = IF f.pc = "done" /\ f.result.local THEN FALSE ELSE @]

DelStep(f) ==
    /\ del' = f
    /\ node_row' = RowAfter(f)

\* delete_node up to its first suspension
DeleteNodeCall(dm, ds, client_found, creds_found, db) ==
    /\ del.pc = "idle"
    /\ IF ~node_row.exists
       THEN DelStep([del EXCEPT !.pc = "done", !.dm = dm, !.ds = ds,
                               !.errors = <<<<"node", "not_found">>>>])
       ELSE DelStep(MarzbanBegin([del EXCEPT !.dm = dm, !.ds = ds, !.existed = TRUE,
                                             !.profile = node_row.ssh_profile_id],
                                 client_found, creds_found, db))

\* _delete_from_marzban: client.get_nodes() answered
MarzbanListed(o, creds_found, db) ==
    /\ del.pc = "marzban_list"
    /\ CASE o = "match" -> DelStep([del EXCEPT !.pc = "marzban_delete"])
         [] o = "raises" -> DelStep(MarzbanEnd(del, "raises", creds_found, db))
         [] OTHER -> DelStep(MarzbanEnd(del, "false", creds_found, db))

\* _delete_from_marzban: client.delete_node(id) answered
MarzbanDeleted(o, creds_found, db) ==
    /\ del.pc = "marzban_delete"
    /\ DelStep(MarzbanEnd(del, IF o = "ok" THEN "true" ELSE "raises", creds_found, db))

\* _uninstall_from_server: ssh_client.connect() ended; the finally block
\* closes the client on both paths
ServerConnected(o) ==
    /\ del.pc = "server_connect"
    /\ IF o = "ok"
       THEN DelStep([del EXCEPT !.pc = "server_uninstall", !.ssh_open = TRUE])
       ELSE DelStep([del EXCEPT !.pc = "server_close", !.exc = "raises"])

\* node_manager.uninstall_node(name) ended
ServerUninstalled(o) ==
    /\ del.pc = "server_uninstall"
    /\ CASE o = "exit_0" -> DelStep([del EXCEPT !.pc = "server_close", !.ret = "true"])
         [] o = "exit_nonzero" -> DelStep([del EXCEPT !.pc = "server_close", !.ret = "false"])
         [] OTHER -> DelStep([del EXCEPT !.pc = "server_close", !.exc = "raises"])

\* ssh_client.close() of the finally block ended
ServerClosed(o, db) ==
    /\ del.pc = "server_close"
    /\ LET f == [del EXCEPT !.ssh_open = IF o = "ok" THEN FALSE ELSE @]
       IN DelStep(ServerEnd(f, IF o = "raises" \/ del.exc # None THEN "raises" ELSE del.ret, db))

\* another request removes the same local record while this call is suspended
OtherRequestDeletesRow ==
    /\ del.pc \notin {"idle", "done"}
    /\ node_row.exists
    /\ node_row' = [node_row EXCEPT !.exists = FALSE]
    /\ UNCHANGED del

\* the result was returned; a later call may find the row again or not
DeleteNodeReturn ==
    /\ del.pc = "done"
    /\ del' = DelIdle
    /\ node_row' \in NodeRows


\* =====================================================================
\* Job manager: Job, JobManager
\* =====================================================================

JobIds == 1..MaxJobs
CallIds == 1..MaxCalls
Terminal == {"completed", "failed", "cancelled"}
Active == {"pending", "running"}

NoTime == -1
\* a pair of ports; 0 stands for a port that is not there
NoPorts == [service |-> 0, api |-> 0]

\* Job.result: None, or the dict that _run_ssh_installation passes to complete
NoResult == [present |-> FALSE, node_id |-> 0, ports |-> NoPorts, ssh_profile_id |-> NoProfile]
Result(node_id, ports, profile) ==
    [present |-> TRUE, node_id |-> node_id, ports |-> ports, ssh_profile_id |-> profile]

\* a log line: the text and the provisioning step that wrote it
\* (0 for the lines the Job methods write themselves)
Line(step, text) == [step |-> step, text |-> text]

Min(a, b) == IF a < b THEN a ELSE b
Max(a, b) == IF a > b THEN a ELSE b

\* Job(job_id, job_type): the dataclass defaults
NewJob(t) ==
    [status |-> "pending", progress |-> 0, current_step |-> "", logs |-> <<>>,
     created_at |-> t, started_at |-> NoTime, completed_at |-> NoTime,
     error |-> None, result |-> NoResult]

\* Job.add_log
add_log(jr, line) == [jr EXCEPT !.logs = Append(@, line)]

update_progressUnclamped(jr, progress, step) ==
    [jr EXCEPT !.progress = progress,
               !.current_step = IF step # "" THEN step ELSE @]

\* Job.update_progress
update_progress(jr, progress, step) ==
    [jr EXCEPT !.progress = Min(Max(progress, 0), 100),
               !.current_step = IF step # "" THEN step ELSE @]

\* Job.start
start(jr, t) ==
    add_log([jr EXCEPT !.status = "running", !.started_at = t],
            Line(0, "Job started"))

\* Job.complete
complete(jr, result, t) ==
    add_log([jr EXCEPT !.status = "completed", !.completed_at = t,
                       !.progress = 100, !.result = result],
            Line(0, "Job completed successfully"))

failWithoutCompletedAt(jr, error, t) ==
    add_log([jr EXCEPT !.status = "failed", !.error = error],
            Line(0, "Job failed"))

\* Job.fail
fail(jr, error, t) ==
    add_log([jr EXCEPT !.status = "failed", !.completed_at = t, !.error = error],
            Line(0, "Job failed"))

\* Job.cancel
cancel(jr, t) ==
    add_log([jr EXCEPT !.status = "cancelled", !.completed_at = t],
            Line(0, "Job cancelled"))

\* ---------------------------------------------------------------------
\* The asyncio task of a job: _wrapped_task running _run_ssh_installation
\* ---------------------------------------------------------------------

\* places where the coroutine is suspended inside "async with SSHClient"
InSession == {"cli_check", "cli_version", "cli_install", "cli_verify",
              "node_cli_check", "node_cli_install", "node_cli_verify",
              "upload", "install_exec", "cert_rm", "panel_register"}

\* ids of SSH profiles a request may resolve to
ProfileIds == {1, 2}

NewTask(has_token, profile) ==
    [pc |-> "scheduled",
     must_cancel |-> FALSE,     \* task.cancel() was called, CancelledError not yet thrown
     exc |-> None,              \* exception in flight while __aexit__ closes the session
     cancelled |-> FALSE,       \* the task ended with CancelledError
     access_token |-> has_token,
     ssh_profile_id |-> profile,  \* resolved by start_ssh_install before the task exists
     ssh_open |-> FALSE,
     install_exit |-> None,     \* exit code class of the install command
     node_persisted |-> FALSE,
     install_out |-> <<>>,      \* stdout + stderr of the install command
     cert_file |-> FALSE,       \* /tmp/ssl_cert_<name>.pem exists on the remote host
     cert_rm_exit |-> None,     \* exit code class of "rm -f <cert_path>"
     cert_uploaded |-> FALSE,   \* upload_content returned to install_node (history)
     swept |-> FALSE,           \* _cleanup_old_jobs removed the job's entry (history)
     events |-> <<>>,           \* node_repo.insert and client.create_node, in call order (history)
     ports |-> NoPorts,         \* install_result.service_port / api_port
     row_ports |-> NoPorts,     \* ServicePort / APIPort of the inserted node row
     panel_ports |-> NoPorts,   \* port / api_port sent to client.create_node
     panel_error |-> FALSE,     \* client.create_node raised (caught, logged as a warning)
     \* history
     failed_step |-> 0,         \* first provisioning step that failed
     failure |-> None,          \* and its message
     cancel_seen |-> FALSE,     \* a CancelledError was thrown into the task
     steps |-> <<>>,            \* provisioning steps begun, in order
     cancel_true |-> 0,         \* cancel_job calls that returned True
     cancel_false |-> FALSE]    \* a cancel_job call returned False

doneOnceStarted(tr) == tr.pc # "scheduled"

\* the task is done: task.done()
done(tr) == tr.pc = "done"

WrappedAlwaysCompletes(c, exc, t) ==
    CASE exc = "CancelledError" ->
            [c EXCEPT !.t.pc = "done", !.t.cancelled = TRUE, !.t.exc = None]
      [] exc = None ->
            [c EXCEPT !.t.pc = "done", !.t.exc = None, !.j = complete(c.j, NoResult, t)]
      [] OTHER ->
            [c EXCEPT !.t.pc = "done", !.t.exc = None, !.j = fail(c.j, exc, t)]

\* _wrapped_task after task_fn ended: exc is the exception that left it
\* (None: it returned). CancelledError is not an Exception and passes through.
Wrapped(c, exc, t) ==
    CASE exc = "CancelledError" ->
            [c EXCEPT !.t.pc = "done", !.t.cancelled = TRUE, !.t.exc = None]
      [] exc = None ->
            [c EXCEPT !.t.pc = "done", !.t.exc = None,
                      !.j = IF c.j.status = "running" THEN complete(c.j, NoResult, t) ELSE @]
      [] OTHER ->
            [c EXCEPT !.t.pc = "done", !.t.exc = None, !.j = fail(c.j, exc, t)]

\* _run_ssh_installation ends with exc: its "except Exception" fails the
\* job, logs the error and re-raises into the wrapper
Finalize(c, exc, t) ==
    IF exc \in {"CancelledError", None}
    THEN Wrapped(c, exc, t)
    ELSE Wrapped([c EXCEPT !.j = add_log(fail(c.j, exc, t), Line(0, "Error"))], exc, t)

\* record the first failure of a provisioning step (history only)
NoteFailure(c, step, exc) ==
    IF exc # "CancelledError" /\ c.t.failed_step = 0
    THEN [c EXCEPT !.t.failed_step = step, !.t.failure = exc]
    ELSE c

\* an exception is raised inside the "async with SSHClient" block:
\* __aexit__ awaits close() before the exception goes on
RaiseInSession(c, step, exc) ==
    LET d == NoteFailure(c, step, exc)
    IN [d EXCEPT !.t.pc = "close", !.t.exc = exc]

\* what the coroutine receives when it resumes: the CancelledError of a
\* pending task.cancel(), else the outcome of the awaited operation
Received(tr, o) == IF tr.must_cancel THEN "CancelledError" ELSE o

Delivered(c) ==
    [c EXCEPT !.t.must_cancel = FALSE,
              !.t.cancel_seen = @ \/ c.t.must_cancel]

Begin(c, step) == [c EXCEPT !.t.steps = Append(@, step)]

\* Step 5 begins: "Installing node", then install_node probes the CLI
InstallNodeBegin(c) ==
    LET d == Begin(c, 5)
    IN [d EXCEPT !.j = add_log(update_progress(d.j, 60, "Installing node"),
                               Line(5, "Installing node")),
                 !.t.pc = "node_cli_check"]

\* ports the SSH install request asks for (the schema defaults)
RequestedPorts == [service |-> 62050, api |-> 62051]

\* ---- the text of a command's output ----
\* A text is a sequence of symbols: single characters, and the two labels
\* as one symbol each.  "S" is the literal SERVICE_PORT: and "X" the
\* literal XRAY_API_PORT: ; "r" is what is left of a label once its first
\* character was removed; "E" is the escape character \x1B.
Digits == {"0", "1", "2", "3", "4", "5", "6", "7", "8", "9"}
DigitValue == [d \in Digits |->
                 CASE d = "0" -> 0 [] d = "1" -> 1 [] d = "2" -> 2 [] d = "3" -> 3
                   [] d = "4" -> 4 [] d = "5" -> 5 [] d = "6" -> 6 [] d = "7" -> 7
                   [] d = "8" -> 8 [] OTHER -> 9]
Whitespace == {" ", "\n"}
\* symbols of more than one character; their first character is a capital
Multichar == {"S", "X", "r"}
\* the classes of the pattern \x1B(?:[@-Z\\-_]|\[[0-?]*[ -/]*[@-~])
TwoCharFinals == {"A"} \cup Multichar
CsiParameters == Digits
CsiIntermediates == {" "}
CsiFinals == {"A", "[", "m"} \cup Multichar

\* the first index at or after i whose symbol is not in class
RECURSIVE SkipRun(_, _, _)
SkipRun(text, i, class) ==
    IF i <= Len(text) /\ text[i] \in class THEN SkipRun(text, i + 1, class) ELSE i

\* the pattern matched at the head of text: index of the last symbol of the
\* match, 0 when the pattern does not match there.  The three classes of a
\* CSI sequence are disjoint, so the greedy match is the only one.
escape_end(text) ==
    IF Len(text) < 2 \/ text[1] # "E" THEN 0
    ELSE IF text[2] \in TwoCharFinals THEN 2
    ELSE IF text[2] # "[" THEN 0
    ELSE LET k == SkipRun(text, SkipRun(text, 3, CsiParameters), CsiIntermediates)
         IN IF k <= Len(text) /\ text[k] \in CsiFinals THEN k ELSE 0

\* _strip_ansi: ansi_escape.sub('', text), one pass from left to right
\* over the non-overlapping matches
RECURSIVE _strip_ansi(_)
_strip_ansi(text) ==
    IF text = <<>> THEN <<>>
    ELSE LET e == escape_end(text)
         IN IF e = 0
            THEN <<text[1]>> \o _strip_ansi(Tail(text))
            ELSE (IF text[e] \in Multichar THEN <<"r">> ELSE <<>>)
                 \o _strip_ansi(SubSeq(text, e + 1, Len(text)))

\* int(match.group(1)) for a run of digits
RECURSIVE int(_)
int(digits) ==
    IF digits = <<>> THEN 0
    ELSE 10 * int(SubSeq(digits, 1, Len(digits) - 1)) + DigitValue[digits[Len(digits)]]

NoMatch == -1

\* re.search(label + r"\s+(\d+)", clean) from index i on: the number of
\* the first place where the label is followed by whitespace and digits
RECURSIVE port_search(_, _, _)
port_search(clean, label, i) ==
    IF i > Len(clean) THEN NoMatch
    ELSE LET w == SkipRun(clean, i + 1, Whitespace)
             d == SkipRun(clean, w, Digits)
         IN IF clean[i] = label /\ w > i + 1 /\ d > w
            THEN int(SubSeq(clean, w, d - 1))
            ELSE port_search(clean, label, i + 1)

\* str.strip()
RECURSIVE strip(_)
strip(text) ==
    IF text = <<>> THEN <<>>
    ELSE IF text[1] \in Whitespace THEN strip(Tail(text))
    ELSE IF text[Len(text)] \in Whitespace THEN strip(SubSeq(text, 1, Len(text) - 1))
    ELSE text

_parse_install_outputRequestedOnFailure(output, exit_code, service_port, api_port) ==
    LET clean == _strip_ansi(output)
        service_match == port_search(clean, "S", 1)
        api_match == port_search(clean, "X", 1)
        ok == exit_code = "exit_0"
    IN [success |-> ok,
        service_port |-> IF ok /\ service_match # NoMatch THEN service_match ELSE service_port,
        api_port |-> IF ok /\ api_match # NoMatch THEN api_match ELSE api_port,
        error |-> IF ok THEN <<>>
                  ELSE IF strip(clean) # <<>> THEN strip(clean)
                  ELSE <<"Installation failed">>]

\* _parse_install_output: the InstallResult for the output (stdout + stderr)
\* and exit code of the install command
_parse_install_output(output, exit_code, service_port, api_port) ==
    LET clean == _strip_ansi(output)
        service_match == port_search(clean, "S", 1)
        api_match == port_search(clean, "X", 1)
    IN [success |-> exit_code = "exit_0",
        service_port |-> IF service_match # NoMatch THEN service_match ELSE service_port,
        api_port |-> IF api_match # NoMatch THEN api_match ELSE api_port,
        error |-> IF exit_code = "exit_0" THEN <<>>
                  ELSE IF strip(clean) # <<>> THEN strip(clean)
                  ELSE <<"Installation failed">>]

\* what the install command may print: no port lines, the requested ports,
\* other ports in colour (auto_ports), or only one of the two lines
InstallOutputs ==
    {<<"m">>,
     <<"S", " ", "6", "2", "0", "5", "0", "\n", "X", " ", "6", "2", "0", "5", "1">>,
     <<"E", "[", "1", "m", "S", " ", " ", "6", "2", "0", "6", "0", "E", "[", "0", "m", "\n",
       "X", " ", "6", "2", "0", "6", "1">>,
     <<"S", " ", "6", "2", "0", "6", "0">>}

requested_ports(c) == RequestedPorts

\* "actual_service_port = install_result.service_port" (and api_port): the
\* ports used by everything after the install step
actual_ports(c) == c.t.ports

\* the rest of step 6 and step 7: audit + commit, job.complete(result)
RegisterEnd(c, db, t) ==
    IF db # "ok"
    THEN RaiseInSession([c EXCEPT !.t.node_persisted = FALSE], 6, "persist_error")
    ELSE LET d == Begin(c, 7)
         IN [d EXCEPT !.j = add_log(complete(add_log(d.j, Line(6, "Node registered")),
                                            Result(1, actual_ports(d), d.t.ssh_profile_id), t),
                                   Line(7, "Installation complete")),
                      !.t.pc = "close"]


\* Steps 6 and 7 after a successful install, up to the next suspension:
\* insert the local row, then (with a token) await the panel registration
RegisterBegin(c, db1, db2, t) ==
    LET d == Begin(c, 6)
        e == [d EXCEPT !.j = add_log(update_progress(add_log(d.j, Line(5, "Node installed")),
                                                     80, "Registering node in Marzban"),
                                     Line(6, "Registering node in Marzban panel"))]
    IN IF db1 # "ok"
       THEN RaiseInSession(e, 6, "persist_error")
       ELSE IF e.t.access_token
            THEN [e EXCEPT !.t.pc = "panel_register", !.t.node_persisted = TRUE,
                           !.t.row_ports = actual_ports(e),
                           !.t.panel_ports = actual_ports(e),
                           !.t.events = <<"row_insert", "panel_request">>]
            ELSE RegisterEnd([e EXCEPT !.t.node_persisted = TRUE,
                                       !.t.row_ports = actual_ports(e),
                                       !.t.events = <<"row_insert">>], db2, t)

\* install_node returned InstallResult(success=False): the orchestrator raises
InstallFailed(c) == RaiseInSession(c, 5, "installation_failed")

\* ---------------------------------------------------------------------
\* JobManager state and operations
\* ---------------------------------------------------------------------

_max_jobs == 2
_job_ttl_seconds == 86400      \* job_ttl_hours = 24

CallIdle == [op |-> None, job |-> 0, pc |-> "idle", value |-> None]

EmptyMap == [x \in {} |-> 0]

JobInit ==
    /\ job = EmptyMap
    /\ task = EmptyMap
    /\ _jobs = {}
    /\ _tasks = {}
    /\ _lock = 0
    /\ calls = [c \in CallIds |-> CallIdle]

AfterCleanupAtTtl(reg, t) ==
    {i \in reg : ~(/\ job[i].status \in Terminal
                   /\ job[i].completed_at # NoTime
                   /\ t - job[i].completed_at >= _job_ttl_seconds)}

\* _cleanup_old_jobs: the ids that stay in the registry
AfterCleanup(reg, t) ==
    {i \in reg : ~(/\ job[i].status \in Terminal
                   /\ job[i].completed_at # NoTime
                   /\ t - job[i].completed_at > _job_ttl_seconds)}

\* the task records after a sweep that removed the entries of removed
MarkSwept(removed) ==
    [i \in DOMAIN task |-> IF i \in removed THEN [task[i] EXCEPT !.swept = TRUE] ELSE task[i]]

\* start_ssh_install: create_job (under the lock, with the sweep at
\* capacity), then run_job, which creates the task and stores it
StartInstall(has_token, profile) ==
    /\ _lock = 0
    /\ Cardinality(DOMAIN job) < MaxJobs
    /\ LET id == Cardinality(DOMAIN job) + 1
           reg == IF Cardinality(_jobs) >= _max_jobs THEN AfterCleanup(_jobs, now) ELSE _jobs
       IN /\ job' = job @@ (id :> NewJob(now))
          /\ _jobs' = reg \cup {id}
          /\ task' = MarkSwept(_jobs \ reg) @@ (id :> NewTask(has_token, profile))
          /\ _tasks' = _tasks \cup {id}
    /\ UNCHANGED <<_lock, calls>>

Ctx(j) == [j |-> job[j], t |-> task[j]]

\* the "finally" of _wrapped_task drops the task reference when the
\* coroutine ends
Commit(j, c) ==
    /\ job' = [job EXCEPT ![j] = c.j]
    /\ task' = [task EXCEPT ![j] = c.t]
    /\ _tasks' = IF c.t.pc = "done" THEN _tasks \ {j} ELSE _tasks
    /\ UNCHANGED <<_jobs, _lock, calls>>

At(j, pc) == j \in DOMAIN task /\ task[j].pc = pc

\* first step of the task. A task cancelled before its first step never
\* enters the coroutine: no job.start(), no finally.
TaskStart(j) ==
    /\ At(j, "scheduled")
    /\ IF task[j].must_cancel
       THEN /\ task' = [task EXCEPT ![j] = [Delivered(Ctx(j)).t EXCEPT !.pc = "done", !.cancelled = TRUE]]
            /\ UNCHANGED <<job, _jobs, _tasks, _lock, calls>>
       ELSE LET j1 == add_log(add_log(update_progress(start(job[j], now), 5, "Preparing SSH credentials"),
                                      Line(1, "Preparing SSH credentials")),
                              Line(1, "SSH credentials ready"))
                j2 == add_log(add_log(update_progress(j1, 10, "Fetching certificate"),
                                      Line(2, "Fetching certificate from panel")),
                              Line(2, "Certificate fetched successfully"))
                j3 == add_log(update_progress(j2, 20, "Connecting to server"),
                              Line(3, "Connecting"))
            IN Commit(j, Begin([j |-> j3, t |-> [task[j] EXCEPT !.pc = "connect"]], 3))

\* SSHClient.__aenter__: connect() ended. connect runs in a worker thread:
\* a CancelledError ends the await, not the thread, which may still open
\* the session (o = "ok"); __aexit__ does not run for it
Connected(j, o) ==
    /\ At(j, "connect")
    /\ LET r == Received(task[j], o)
           c == Delivered(Ctx(j))
       IN CASE r = "CancelledError" ->
                 Commit(j, Finalize([c EXCEPT !.t.ssh_open = (o = "ok")], r, now))
            [] r = "raises" -> Commit(j, Finalize(NoteFailure(c, 3, "connect_error"), "connect_error", now))
            [] OTHER ->
                 LET d == Begin(c, 4)
                 IN Commit(j, [d EXCEPT !.j = update_progress(add_log(d.j, Line(3, "Connected")),
                                                              30, "Checking node-manager CLI"),
                                        !.t.pc = "cli_check", !.t.ssh_open = TRUE])

\* a remote command awaited at pc ended with o; step is the provisioning
\* step it belongs to, and normal the continuation for an exit code
Exec(j, pc, step, o, normal) ==
    /\ At(j, pc)
    /\ LET r == Received(task[j], o)
           c == Delivered(Ctx(j))
       IN CASE r = "CancelledError" -> Commit(j, RaiseInSession(c, step, r))
            [] r = "raises" -> Commit(j, RaiseInSession(c, step, "exec_error"))
            [] OTHER -> Commit(j, normal)

CliFailed(c) == RaiseInSession(c, 4, "cli_install_failed")

\* Step 4: "which marzban-node-manager"
CliChecked(j, o) ==
    LET c == Delivered(Ctx(j))
        r == Received(task[j], o)
        N == IF r = "exit_0"
                   THEN [c EXCEPT !.t.pc = "cli_version"]
                   ELSE [c EXCEPT !.j = update_progress(add_log(c.j, Line(4, "Installing node-manager CLI")),
                                                        40, "Installing CLI"),
                                  !.t.pc = "cli_install"]
    IN Exec(j, "cli_check", 4, o, N)

\* Step 4: get_cli_version
CliVersion(j, o) ==
    LET c == Delivered(Ctx(j))
        r == Received(task[j], o)
        N == InstallNodeBegin([c EXCEPT !.j = add_log(c.j, Line(4, "CLI already installed"))])
    IN Exec(j, "cli_version", 4, o, N)

\* Step 4: install_cli ran the bootstrap script
CliInstalled(j, o) ==
    LET c == Delivered(Ctx(j))
        r == Received(task[j], o)
        N == IF r = "exit_0" THEN [c EXCEPT !.t.pc = "cli_verify"] ELSE CliFailed(c)
    IN Exec(j, "cli_install", 4, o, N)

\* Step 4: install_cli probes again
CliVerified(j, o) ==
    LET c == Delivered(Ctx(j))
        r == Received(task[j], o)
        N == IF r = "exit_0"
                   THEN InstallNodeBegin([c EXCEPT !.j = add_log(c.j, Line(4, "CLI installed successfully"))])
                   ELSE CliFailed(c)
    IN Exec(j, "cli_verify", 4, o, N)

\* Step 5: install_node probes the CLI itself
NodeCliChecked(j, o) ==
    LET c == Delivered(Ctx(j))
        r == Received(task[j], o)
        N == IF r = "exit_0" THEN [c EXCEPT !.t.pc = "upload"]
                   ELSE [c EXCEPT !.t.pc = "node_cli_install"]
    IN Exec(j, "node_cli_check", 5, o, N)

NodeCliInstalled(j, o) ==
    LET c == Delivered(Ctx(j))
        r == Received(task[j], o)
        N == IF r = "exit_0" THEN [c EXCEPT !.t.pc = "node_cli_verify"] ELSE InstallFailed(c)
    IN Exec(j, "node_cli_install", 5, o, N)

NodeCliVerified(j, o) ==
    LET c == Delivered(Ctx(j))
        r == Received(task[j], o)
        N == IF r = "exit_0" THEN [c EXCEPT !.t.pc = "upload"] ELSE InstallFailed(c)
    IN Exec(j, "node_cli_verify", 5, o, N)

\* Step 5: upload_content of the certificate
Uploaded(j, o) ==
    /\ At(j, "upload")
    /\ LET c == Delivered(Ctx(j))
           r == Received(task[j], o)
       IN CASE r = "CancelledError" ->
                 \* the upload goes on in its worker thread
                 Commit(j, RaiseInSession([c EXCEPT !.t.cert_file = (o = "ok")], 5, r))
            [] r = "raises" -> Commit(j, RaiseInSession(c, 5, "exec_error"))
            [] OTHER -> Commit(j, [c EXCEPT !.t.pc = "install_exec", !.t.cert_file = TRUE,
                                           !.t.cert_uploaded = TRUE])

\* Step 5: the install command
InstallExecuted(j, o, out) ==
    LET c == Delivered(Ctx(j))
        r == Received(task[j], o)
        N == [c EXCEPT !.t.pc = "cert_rm", !.t.install_exit = r, !.t.install_out = out]
    IN Exec(j, "install_exec", 5, o, N)

\* Step 5: "rm -f cert", then _parse_install_output and steps 6, 7
CertRemoved(j, o, db1, db2) ==
    /\ At(j, "cert_rm")
    /\ LET r == Received(task[j], o)
           b == Delivered(Ctx(j))
           \* the file is gone when rm ran and exited with 0
           c == [b EXCEPT !.t.cert_file = IF o = "exit_0" THEN FALSE ELSE @]
           install_result == _parse_install_output(c.t.install_out, c.t.install_exit,
                                                   RequestedPorts.service, RequestedPorts.api)
       IN CASE r = "CancelledError" -> Commit(j, RaiseInSession(c, 5, r))
            [] r = "raises" -> Commit(j, RaiseInSession(c, 5, "exec_error"))
            [] OTHER ->
                 LET d == [c EXCEPT !.t.cert_rm_exit = r]
                 IN IF ~install_result.success
                    THEN Commit(j, InstallFailed(d))
                    ELSE Commit(j, RegisterBegin([d EXCEPT !.t.ports =
                                                     [service |-> install_result.service_port,
                                                      api |-> install_result.api_port]],
                                                 db1, db2, now))

\* Step 6: client.create_node ended; its exceptions are only logged.
\* A CancelledError leaves "with DatabaseConnection", which rolls back.
PanelRegistered(j, o, db2) ==
    /\ At(j, "panel_register")
    /\ LET r == Received(task[j], o)
           c == Delivered(Ctx(j))
       IN IF r = "CancelledError"
          THEN Commit(j, RaiseInSession([c EXCEPT !.t.node_persisted = FALSE], 6, r))
          ELSE Commit(j, RegisterEnd([c EXCEPT !.t.panel_error = (r = "raises")], db2, now))

\* SSHClient.__aexit__: close() ended; the exception in flight goes on,
\* unless close() raised one itself. close runs in a worker thread: after a
\* CancelledError the thread closes the session (o = "ok") or does not
Closed(j, o) ==
    /\ At(j, "close")
    /\ LET r == Received(task[j], o)
           c == Delivered(Ctx(j))
       IN CASE r = "CancelledError" ->
                 Commit(j, Finalize([c EXCEPT !.t.ssh_open = IF o = "ok" THEN FALSE ELSE @], r, now))
            [] r = "raises" -> Commit(j, Finalize(c, "close_error", now))
            [] OTHER -> Commit(j, Finalize([c EXCEPT !.t.ssh_open = FALSE], c.t.exc, now))


\* ---------------------------------------------------------------------
\* cancel_job and delete_job calls
\* ---------------------------------------------------------------------

cancel_job_entryAnyStatus(j) ==
    IF j \notin _jobs THEN "false"
    ELSE IF j \in _tasks /\ ~done(task[j]) THEN "await"
    ELSE "true"

\* cancel_job up to its first suspension:
\*   "false"  it returns False (unknown job, or job not Pending/Running)
\*   "await"  it called task.cancel() and awaits the task
\*   "true"   no live task: job.cancel(), it returns True
cancel_job_entry(j) ==
    IF j \notin _jobs THEN "false"
    ELSE IF job[j].status \notin Active THEN "false"
    ELSE IF j \in _tasks /\ ~done(task[j]) THEN "await"
    ELSE "true"

CancelNowEveryActiveJob(j) ==
    /\ job' = [k \in DOMAIN job |-> IF job[k].status \in Active THEN cancel(job[k], now) ELSE job[k]]
    /\ task' = [task EXCEPT ![j].cancel_true = @ + 1]

\* "job.cancel(); return True"
CancelNow(j) ==
    /\ job' = [job EXCEPT ![j] = cancel(@, now)]
    /\ task' = [task EXCEPT ![j].cancel_true = @ + 1]

\* "return False"
Refused(j) ==
    /\ task' = IF j \in DOMAIN task THEN [task EXCEPT ![j].cancel_false = TRUE] ELSE task
    /\ UNCHANGED job

\* "task.cancel()"
RequestCancel(j) ==
    /\ task' = [task EXCEPT ![j].must_cancel = TRUE]
    /\ UNCHANGED job

\* a call that is not suspended has returned: its slot is free again
Suspended(c, op, j, pc) ==
    [calls EXCEPT ![c] = [op |-> op, job |-> j, pc |-> pc, value |-> None]]

\* the call returns value to its caller
Returned(c, op, j, value) ==
    [calls EXCEPT ![c] = [op |-> op, job |-> j, pc |-> "returned", value |-> value]]

\* JobManager.get_job / get_job_status: self._jobs.get(job_id), as the set
\* of what is returned (empty for None)
get_job(j) == IF j \in _jobs THEN {job[j]} ELSE {}
get_job_status(j) == IF j \in _jobs THEN {job[j].status} ELSE {}

\* Job.to_dict: the fields a poller receives (NoTime, None and NoResult
\* stand for the None of an unset field)
to_dict(jr) ==
    [status |-> jr.status, progress |-> jr.progress,
     current_step |-> jr.current_step, logs |-> jr.logs,
     created_at |-> jr.created_at, started_at |-> jr.started_at,
     completed_at |-> jr.completed_at, error |-> jr.error, result |-> jr.result]

\* what get_job_status(job_id) returns to a poller: job.to_dict(), as a set
\* (empty for None)
job_snapshot(j) == IF j \in _jobs THEN {to_dict(job[j])} ELSE {}

\* a new call takes the first free slot
FreeSlot(c) ==
    /\ calls[c].pc = "idle"
    /\ \A b \in CallIds : b < c => calls[b].pc # "idle"

\* cancel_job(job_id), called on its own
CancelCall(c, j) ==
    /\ FreeSlot(c)
    /\ LET e == cancel_job_entry(j)
       IN CASE e = "false" ->
                 /\ calls' = Returned(c, "cancel", j, "false")
                 /\ Refused(j)
            [] e = "await" ->
                 /\ calls' = Suspended(c, "cancel", j, "await_task")
                 /\ RequestCancel(j)
            [] OTHER ->
                 /\ calls' = Returned(c, "cancel", j, "true")
                 /\ CancelNow(j)
    /\ UNCHANGED <<_jobs, _tasks, _lock>>

DeleteLockedHoldingLock(c, j) ==
    IF j \notin _jobs
    THEN /\ calls' = Returned(c, "delete", j, "false")
         /\ _lock' = c
         /\ UNCHANGED <<job, task, _jobs, _tasks>>
    ELSE LET e == cancel_job_entry(j)
         IN CASE e = "await" ->
                   /\ calls' = Suspended(c, "delete", j, "await_task")
                   /\ RequestCancel(j)
                   /\ _lock' = c
                   /\ UNCHANGED <<_jobs, _tasks>>
              [] OTHER ->
                   /\ calls' = Returned(c, "delete", j, "true")
                   /\ IF e = "true" THEN CancelNow(j) ELSE Refused(j)
                   /\ _jobs' = _jobs \ {j}
                   /\ _lock' = c
                   /\ UNCHANGED _tasks

\* delete_job(job_id) with the lock held by call c, up to the suspension
\* inside cancel_job
DeleteLocked(c, j) ==
    IF j \notin _jobs
    THEN /\ calls' = Returned(c, "delete", j, "false")
         /\ _lock' = 0
         /\ UNCHANGED <<job, task, _jobs, _tasks>>
    ELSE LET e == cancel_job_entry(j)
         IN CASE e = "await" ->
                   /\ calls' = Suspended(c, "delete", j, "await_task")
                   /\ RequestCancel(j)
                   /\ _lock' = c
                   /\ UNCHANGED <<_jobs, _tasks>>
              [] OTHER ->
                   /\ calls' = Returned(c, "delete", j, "true")
                   /\ IF e = "true" THEN CancelNow(j) ELSE Refused(j)
                   /\ _jobs' = _jobs \ {j}
                   /\ _lock' = 0
                   /\ UNCHANGED _tasks

\* delete_job(job_id): "async with self._lock"
DeleteCall(c, j) ==
    /\ FreeSlot(c)
    /\ IF _lock # 0
       THEN /\ calls' = Suspended(c, "delete", j, "lock_wait")
            /\ UNCHANGED <<job, task, _jobs, _tasks, _lock>>
       ELSE DeleteLocked(c, j)

\* a delete_job call waiting for the lock gets it
LockAcquired(c) ==
    /\ calls[c].pc = "lock_wait"
    /\ calls[c].op = "delete"
    /\ _lock = 0
    /\ DeleteLocked(c, calls[c].job)

CancelResumeWithoutAwait(c) ==
    /\ calls[c].pc = "await_task"
    /\ CancelNow(calls[c].job)
    /\ calls' = Returned(c, calls[c].op, calls[c].job, "true")
    /\ IF calls[c].op = "delete"
       THEN /\ _jobs' = _jobs \ {calls[c].job}
            /\ _lock' = 0
       ELSE UNCHANGED <<_jobs, _lock>>
    /\ UNCHANGED _tasks


\* "await task" returned (or raised CancelledError, which is swallowed):
\* job.cancel(), return True; delete_job then removes the entry
CancelResume(c) ==
    /\ calls[c].pc = "await_task"
    /\ done(task[calls[c].job])
    /\ CancelNow(calls[c].job)
    /\ calls' = Returned(c, calls[c].op, calls[c].job, "true")
    /\ IF calls[c].op = "delete"
       THEN /\ _jobs' = _jobs \ {calls[c].job}
            /\ _lock' = 0
       ELSE UNCHANGED <<_jobs, _lock>>
    /\ UNCHANGED _tasks

\* the caller has the value: the slot is free for another call
CallDone(c) ==
    /\ calls[c].pc = "returned"
    /\ calls' = [calls EXCEPT ![c] = CallIdle]
    /\ UNCHANGED <<job, _jobs, _tasks, task, _lock>>

\* ---------------------------------------------------------------------
\* run_job with an arbitrary task_fn ("work")
\* ---------------------------------------------------------------------

\* values a task_fn passes to update_progress, out-of-range ones included
ProgressInputs == {-1, 0, 55, 100, 101}

\* a job that was created but not (yet) passed to run_job has no task
NoTask == [NewTask(FALSE, NoProfile) EXCEPT !.pc = "none"]

\* create_job(job_type) with a generated id, under the lock; n bounds the
\* number of jobs ever created
CreateJobUpTo(n) ==
    /\ _lock = 0
    /\ Cardinality(DOMAIN job) < n
    /\ LET id == Cardinality(DOMAIN job) + 1
           reg == IF Cardinality(_jobs) >= _max_jobs THEN AfterCleanup(_jobs, now) ELSE _jobs
       IN /\ job' = job @@ (id :> NewJob(now))
          /\ _jobs' = reg \cup {id}
          /\ task' = MarkSwept(_jobs \ reg) @@ (id :> NoTask)
    /\ UNCHANGED <<_tasks, _lock, calls>>

CreateJob == CreateJobUpTo(MaxJobs)

\* create_job with the lock free: the sweep at capacity and the insertion
\* run without an await, and the lock is released when the job is returned
CreateLocked(c) ==
    /\ LET id == Cardinality(DOMAIN job) + 1
           reg == IF Cardinality(_jobs) >= _max_jobs THEN AfterCleanup(_jobs, now) ELSE _jobs
       IN /\ job' = job @@ (id :> NewJob(now))
          /\ _jobs' = reg \cup {id}
          /\ task' = MarkSwept(_jobs \ reg) @@ (id :> NoTask)
          /\ calls' = Returned(c, "create", id, "true")
    /\ UNCHANGED <<_tasks, _lock>>

\* create_job(job_type) as a call that may have to wait at
\* "async with self._lock"; at most MaxFrameJobs jobs are ever created
CreateCall(c) ==
    /\ FreeSlot(c)
    /\ Cardinality(DOMAIN job) < MaxFrameJobs
    /\ \A b \in CallIds : ~(calls[b].pc = "lock_wait" /\ calls[b].op = "create")
    /\ IF _lock # 0
       THEN /\ calls' = Suspended(c, "create", 0, "lock_wait")
            /\ UNCHANGED <<job, task, _jobs, _tasks, _lock>>
       ELSE CreateLocked(c)

\* a create_job call waiting for the lock gets it
CreateLockAcquired(c) ==
    /\ calls[c].pc = "lock_wait"
    /\ calls[c].op = "create"
    /\ _lock = 0
    /\ CreateLocked(c)

\* run_job(job, work): asyncio.create_task(_wrapped_task()), stored in _tasks;
\* nothing of the task runs before run_job returns
RunJob(j) ==
    /\ At(j, "none")
    /\ task' = [task EXCEPT ![j].pc = "scheduled"]
    /\ _tasks' = _tasks \cup {j}
    /\ UNCHANGED <<job, _jobs, _lock, calls>>

\* first step of the task: job.start(), then work runs to its first await
WorkStart(j) ==
    /\ At(j, "scheduled")
    /\ IF task[j].must_cancel
       THEN /\ task' = [task EXCEPT ![j] = [Delivered(Ctx(j)).t EXCEPT !.pc = "done", !.cancelled = TRUE]]
            /\ UNCHANGED <<job, _jobs, _tasks, _lock, calls>>
       ELSE Commit(j, [j |-> start(job[j], now), t |-> [task[j] EXCEPT !.pc = "work"]])

\* work resumes (no cancellation pending) and has operations left
Working(j) ==
    /\ At(j, "work")
    /\ ~task[j].must_cancel
    /\ Len(task[j].steps) < MaxWorkSteps

\* work calls job.update_progress(p) and awaits again
WorkProgress(j, p) ==
    /\ Working(j)
    /\ Commit(j, Begin([Ctx(j) EXCEPT !.j = update_progress(@, p, "")], p))

\* work calls job.complete(result) itself and awaits again
WorkCompletes(j) ==
    /\ Working(j)
    /\ Commit(j, Begin([Ctx(j) EXCEPT !.j = complete(@, Result(1, NoPorts, NoProfile), now)], 7))

\* work returns
WorkReturns(j) ==
    /\ At(j, "work")
    /\ ~task[j].must_cancel
    /\ Commit(j, Wrapped(Ctx(j), None, now))

\* work raises an Exception
WorkRaises(j) ==
    /\ At(j, "work")
    /\ ~task[j].must_cancel
    /\ Commit(j, Wrapped(NoteFailure(Ctx(j), 1, "work_error"), "work_error", now))

\* work resumes with the CancelledError of task.cancel(): it lets it pass,
\* or its cleanup raises an Exception of its own
WorkCancelled(j, o) ==
    /\ At(j, "work")
    /\ task[j].must_cancel
    /\ LET c == Delivered(Ctx(j))
       IN IF o = "raises"
          THEN Commit(j, Wrapped(NoteFailure(c, 1, "cleanup_error"), "cleanup_error", now))
          ELSE Commit(j, Wrapped(c, "CancelledError", now))

\* ---------------------------------------------------------------------
\* The registry over time: create_job with an optional job_id, the sweep
\* ---------------------------------------------------------------------

\* job ids a caller may pass to create_job; 0 stands for no job_id
\* ("job_id or str(uuid.uuid4())")
RegIds == 1..MaxRegIds
NoJobId == 0

\* a generated uuid4: an id no job ever had
FreshId == CHOOSE i \in RegIds : i \notin DOMAIN job /\ \A k \in RegIds : k < i => k \in DOMAIN job

\* the id of the job that create_job(job_id = x) returns
created_id(x) == IF x = NoJobId THEN FreshId ELSE x

\* create_job(job_type, metadata, job_id = x): sweep at capacity, then
\* "self._jobs[job.job_id] = job"
CreateJobAs(x) ==
    /\ _lock = 0
    /\ x = NoJobId => \E i \in RegIds : i \notin DOMAIN job
    /\ LET id == created_id(x)
           reg == IF Cardinality(_jobs) >= _max_jobs THEN AfterCleanup(_jobs, now) ELSE _jobs
       IN /\ job' = (id :> NewJob(now)) @@ job
          /\ _jobs' = reg \cup {id}
          /\ task' = (id :> NoTask) @@ MarkSwept(_jobs \ reg)
    /\ UNCHANGED <<_tasks, _lock, calls, now>>

\* time passes: the TTL to the second, or one second more
Tick(d) ==
    /\ now + d <= MaxTicks * (_job_ttl_seconds + 1)
    /\ now' = now + d
    /\ UNCHANGED jobVars

\* =====================================================================
\* Job manager: list_jobs over one registry
\* =====================================================================

\* the values of self._jobs in insertion order, reduced to the fields
\* list_jobs reads; an entry created again under its id keeps its place
\* with a new created_at, so the order of created_at is arbitrary
ListedTypes == {"ssh_install", "other"}
ListedStatuses == {"pending", "completed"}
ListedTimes == {0, 1}
Registries ==
    UNION {[1..n -> [job_type : ListedTypes, status : ListedStatuses,
                     created_at : ListedTimes]] : n \in 0..MaxListed}

\* the limit query parameter is any integer
Limits == {-1, 0, 1, 2, 50}

ListFor(jobs, job_type, status, limit) ==
    [jobs |-> [k \in 1..Len(jobs) |->
                  [id |-> k, job_type |-> jobs[k].job_type, status |-> jobs[k].status,
                   created_at |-> jobs[k].created_at]],
     job_type |-> job_type, status |-> status, limit |-> limit,
     listed |-> FALSE, result |-> <<>>]

ListQuiet == listing = ListFor(<<>>, None, None, 50)

ListInit ==
    \E jobs \in Registries, job_type \in {None, "ssh_install"},
       status \in {None} \cup ListedStatuses, limit \in Limits :
        listing = ListFor(jobs, job_type, status, limit)

\* "if job_type: ..." and "if status: ..."
matches(j, job_type, status) ==
    /\ job_type # None => j.job_type = job_type
    /\ status # None => j.status = status

\* jobs.sort(key=created_at, reverse=True): stable, equal keys keep their order
RECURSIVE sort_descending(_)
sort_descending(jobs) ==
    IF jobs = <<>> THEN <<>>
    ELSE LET last == jobs[Len(jobs)]
             rest == sort_descending(SubSeq(jobs, 1, Len(jobs) - 1))
             before == SelectSeq(rest, LAMBDA j : j.created_at >= last.created_at)
             after == SelectSeq(rest, LAMBDA j : j.created_at < last.created_at)
         IN before \o <<last>> \o after

\* jobs[:limit]
slice(jobs, limit) ==
    IF limit >= 0 THEN SubSeq(jobs, 1, Min(limit, Len(jobs)))
    ELSE SubSeq(jobs, 1, Max(Len(jobs) + limit, 0))

\* JobManager.list_jobs
list_jobs(jobs, job_type, status, limit) ==
    slice(sort_descending(SelectSeq(jobs, LAMBDA j : matches(j, job_type, status))), limit)

\* a poller calls list_jobs
ListJobs ==
    /\ ~listing.listed
    /\ listing' = [listing EXCEPT !.listed = TRUE,
                       !.result = list_jobs(listing.jobs, listing.job_type,
                                            listing.status, listing.limit)]

\* =====================================================================
\* Node manager client: one install command output, stripped and parsed
\* =====================================================================

TextAlphabet == {"E", "[", "1", " ", "A", "S", "X"}
Texts == UNION {[1..n -> TextAlphabet] : n \in 0..MaxTextLen}

\* service_port / api_port arguments of install_node
PortRequests == {RequestedPorts, [service |-> 1, api |-> 11]}

NoInstallResult == [success |-> FALSE, service_port |-> 0, api_port |-> 0, error |-> <<>>]

OutFor(text, exit_code, requested) ==
    [text |-> text, exit_code |-> exit_code, requested |-> requested,
     stripped |-> <<>>, parsed |-> FALSE, result |-> NoInstallResult]

OutQuiet == parse = OutFor(<<>>, "exit_0", RequestedPorts)

OutInit ==
    \E text \in Texts, exit_code \in {"exit_0", "exit_nonzero"}, requested \in PortRequests :
        parse = OutFor(text, exit_code, requested)

\* _strip_ansi applied to the output, then to its own result
StripAnsi ==
    /\ Len(parse.stripped) < MaxStrips
    /\ parse' = [parse EXCEPT !.stripped =
                   Append(@, _strip_ansi(IF @ = <<>> THEN parse.text ELSE @[Len(@)]))]

\* "return self._parse_install_output(result, name, service_port, api_port)"
ParseInstallOutput ==
    /\ ~parse.parsed
    /\ parse' = [parse EXCEPT !.parsed = TRUE,
                          !.result = _parse_install_output(parse.text, parse.exit_code,
                                                           parse.requested.service,
                                                           parse.requested.api)]

\* =====================================================================
\* SSH transport: SSHClient.test_connection
\* =====================================================================

\* how connect(), the probe command and close() can end
ConnectOutcomes == {"ok", "SSHConnectionError", "Exception"}
ProbeOutcomes == {"match", "no_match", "SSHCommandError", "Exception"}

\* one client object: sessions it opened that are still open, the call in
\* progress, and what the calls returned so far
SshIdle == [pc |-> "idle", open |-> 0, success |-> "false",
            result |-> None, returned |-> <<>>]

SshQuiet == ssh = SshIdle

\* the except clauses of test_connection: the tuple it returns for exc
ProbeCaught(exc) ==
    IF exc \in {"SSHConnectionError", "SSHCommandError"}
    THEN [success |-> "false", error |-> "str(e)"]
    ELSE [success |-> "false", error |-> "Unexpected error"]

\* test_connection returns res
ProbeReturns(s, res) ==
    [s EXCEPT !.pc = "returned", !.result = res, !.returned = Append(@, res)]

\* test_connection up to "await self.connect()"
TestConnectionCall ==
    /\ ssh.pc = "idle"
    /\ Len(ssh.returned) < MaxProbes
    /\ ssh' = [ssh EXCEPT !.pc = "connect"]

\* connect() ended
ProbeConnected(o) ==
    /\ ssh.pc = "connect"
    /\ ssh' = IF o = "ok"
              THEN [ssh EXCEPT !.pc = "execute", !.open = @ + 1]
              ELSE ProbeReturns(ssh, ProbeCaught(o))

\* execute("echo 'connection_test'") ended; when it raises, the except
\* clause returns and close() is not called
ProbeExecuted(o) ==
    /\ ssh.pc = "execute"
    /\ ssh' = IF o \in {"match", "no_match"}
              THEN [ssh EXCEPT !.pc = "close",
                               !.success = IF o = "match" THEN "true" ELSE "false"]
              ELSE ProbeReturns(ssh, ProbeCaught(o))

\* close() ended
ProbeClosed(o) ==
    /\ ssh.pc = "close"
    /\ ssh' = IF o = "ok"
              THEN ProbeReturns([ssh EXCEPT !.open = @ - 1],
                                [success |-> ssh.success, error |-> None])
              ELSE ProbeReturns(ssh, ProbeCaught("Exception"))

\* the caller has the tuple; the client object may be probed again
ProbeDone ==
    /\ ssh.pc = "returned"
    /\ ssh' = [ssh EXCEPT !.pc = "idle", !.result = None]

\* =====================================================================
\* Specifications
\* =====================================================================

\* the parts a specification does not exercise stay in one fixed state
HttpQuiet ==
    /\ _token = NoToken
    /\ _max_retries = 1
    /\ has_credentials = FALSE
    /\ now = 0
    /\ req = ReqIdle
    /\ obs = ObsInit

DelQuiet ==
    /\ del = DelIdle
    /\ node_row = [exists |-> FALSE, ssh_profile_id |-> NoProfile]

JobQuiet == JobInit

Init == HttpQuiet /\ DelQuiet /\ JobInit /\ SshQuiet /\ OutQuiet /\ ListQuiet
InitRequest == HttpInit /\ DelQuiet /\ JobQuiet /\ SshQuiet /\ OutQuiet /\ ListQuiet
InitParse == HttpQuiet /\ DelQuiet /\ JobQuiet /\ SshQuiet /\ OutInit /\ ListQuiet
InitList == HttpQuiet /\ DelQuiet /\ JobQuiet /\ SshQuiet /\ OutQuiet /\ ListInit
InitDelete == HttpQuiet /\ DelInit /\ JobQuiet /\ SshQuiet /\ OutQuiet /\ ListQuiet

TaskNext ==
    \E j \in JobIds :
        \/ TaskStart(j)
        \/ \E o \in CallOutcomes : Connected(j, o)
        \/ \E o \in ExecOutcomes : CliChecked(j, o)
        \/ \E o \in ExecOutcomes : CliVersion(j, o)
        \/ \E o \in ExecOutcomes : CliInstalled(j, o)
        \/ \E o \in ExecOutcomes : CliVerified(j, o)
        \/ \E o \in ExecOutcomes : NodeCliChecked(j, o)
        \/ \E o \in ExecOutcomes : NodeCliInstalled(j, o)
        \/ \E o \in ExecOutcomes : NodeCliVerified(j, o)
        \/ \E o \in CallOutcomes : Uploaded(j, o)
        \/ \E o \in ExecOutcomes, out \in InstallOutputs : InstallExecuted(j, o, out)
        \/ \E o \in ExecOutcomes, db1 \in {"ok", "raises"}, db2 \in {"ok", "raises"} :
               CertRemoved(j, o, db1, db2)
        \/ \E o \in CallOutcomes, db2 \in {"ok", "raises"} : PanelRegistered(j, o, db2)
        \/ \E o \in CallOutcomes : Closed(j, o)

CallNext ==
    \E c \in CallIds :
        \/ \E j \in JobIds : CancelCall(c, j)
        \/ \E j \in JobIds : DeleteCall(c, j)
        \/ LockAcquired(c)
        \/ CancelResume(c)
        \/ CallDone(c)

JobNext ==
    /\ \/ \E tok \in BOOLEAN, profile \in ProfileIds : StartInstall(tok, profile)
       \/ TaskNext
       \/ CallNext
    /\ UNCHANGED httpVars
    /\ UNCHANGED delVars
    /\ UNCHANGED sshVars
    /\ UNCHANGED textVars
    /\ UNCHANGED listVars

HttpNext ==
    /\ \/ RequestCall
       \/ \E r \in AuthResponses : AuthRespond(r)
       \/ \E r \in Responses : Respond(r)
       \/ BackoffDone
       \/ RequestReturn
    /\ UNCHANGED delVars
    /\ UNCHANGED jobVars
    /\ UNCHANGED sshVars
    /\ UNCHANGED textVars
    /\ UNCHANGED listVars

DelNext ==
    /\ \/ \E dm \in BOOLEAN, ds \in BOOLEAN, cf \in BOOLEAN, sf \in BOOLEAN, db \in DbOutcomes :
              DeleteNodeCall(dm, ds, cf, sf, db)
       \/ \E o \in ListOutcomes, sf \in BOOLEAN, db \in DbOutcomes : MarzbanListed(o, sf, db)
       \/ \E o \in CallOutcomes, sf \in BOOLEAN, db \in DbOutcomes : MarzbanDeleted(o, sf, db)
       \/ \E o \in CallOutcomes : ServerConnected(o)
       \/ \E o \in ExecOutcomes : ServerUninstalled(o)
       \/ \E o \in CallOutcomes, db \in DbOutcomes : ServerClosed(o, db)
       \/ OtherRequestDeletesRow
       \/ DeleteNodeReturn
    /\ UNCHANGED httpVars
    /\ UNCHANGED jobVars
    /\ UNCHANGED sshVars
    /\ UNCHANGED textVars
    /\ UNCHANGED listVars

WorkNext ==
    \E j \in JobIds :
        \/ RunJob(j)
        \/ WorkStart(j)
        \/ \E p \in ProgressInputs : WorkProgress(j, p)
        \/ WorkCompletes(j)
        \/ WorkReturns(j)
        \/ WorkRaises(j)
        \/ \E o \in CallOutcomes : WorkCancelled(j, o)

RunNext ==
    /\ \/ CreateJob
       \/ WorkNext
       \/ CallNext
    /\ UNCHANGED httpVars
    /\ UNCHANGED delVars
    /\ UNCHANGED sshVars
    /\ UNCHANGED textVars
    /\ UNCHANGED listVars

RegNext ==
    /\ \/ \E x \in RegIds \cup {NoJobId} : CreateJobAs(x)
       \/ \E j \in RegIds : CancelCall(1, j) /\ UNCHANGED now
       \/ \E j \in RegIds : DeleteCall(1, j) /\ UNCHANGED now
       \/ CallDone(1) /\ UNCHANGED now
       \/ \E d \in {_job_ttl_seconds, _job_ttl_seconds + 1} : Tick(d)
    /\ UNCHANGED <<_token, _max_retries, has_credentials, req, obs>>
    /\ UNCHANGED delVars
    /\ UNCHANGED sshVars
    /\ UNCHANGED textVars
    /\ UNCHANGED listVars

\* the registry of jobs that run no task: ids, deletion and the sweep
SpecRegistry == Init /\ [][RegNext]_vars

\* the job manager running an arbitrary task_fn
SpecRun == Init /\ [][RunNext]_vars

\* the job manager with provisioning tasks and cancel / delete calls
Spec == Init /\ [][JobNext]_vars

SshNext ==
    /\ \/ TestConnectionCall
       \/ \E o \in ConnectOutcomes : ProbeConnected(o)
       \/ \E o \in ProbeOutcomes : ProbeExecuted(o)
       \/ \E o \in CallOutcomes : ProbeClosed(o)
       \/ ProbeDone
    /\ UNCHANGED httpVars
    /\ UNCHANGED delVars
    /\ UNCHANGED jobVars
    /\ UNCHANGED textVars
    /\ UNCHANGED listVars

ParseNext ==
    /\ \/ StripAnsi
       \/ ParseInstallOutput
    /\ UNCHANGED httpVars
    /\ UNCHANGED delVars
    /\ UNCHANGED jobVars
    /\ UNCHANGED sshVars
    /\ UNCHANGED listVars

\* _strip_ansi and _parse_install_output applied to one command output
SpecParse == InitParse /\ [][ParseNext]_vars

FrameIds == 1..MaxFrameJobs

FrameNext ==
    /\ \/ CreateJobUpTo(MaxFrameJobs)
       \/ \E j \in FrameIds :
              \/ RunJob(j)
              \/ WorkStart(j)
              \/ WorkReturns(j)
              \/ WorkRaises(j)
              \/ \E o \in CallOutcomes : WorkCancelled(j, o)
       \/ \E c \in CallIds :
              \/ \E j \in FrameIds : CancelCall(c, j)
              \/ \E j \in FrameIds : DeleteCall(c, j)
              \/ LockAcquired(c)
              \/ CancelResume(c)
              \/ CallDone(c)
    /\ UNCHANGED httpVars
    /\ UNCHANGED delVars
    /\ UNCHANGED sshVars
    /\ UNCHANGED textVars
    /\ UNCHANGED listVars

\* the job manager running several jobs side by side
SpecFrame == Init /\ [][FrameNext]_vars

\* tasks here return or let the CancelledError pass: how a task ends makes
\* no difference to the calls that wait for it
LiveNext ==
    /\ \/ \E j \in FrameIds :
              \/ RunJob(j)
              \/ WorkStart(j)
              \/ WorkReturns(j)
              \/ WorkCancelled(j, "ok")
       \/ \E c \in CallIds :
              \/ CreateCall(c)
              \/ CreateLockAcquired(c)
              \/ \E j \in FrameIds : CancelCall(c, j)
              \/ \E j \in FrameIds : DeleteCall(c, j)
              \/ LockAcquired(c)
              \/ CancelResume(c)
              \/ CallDone(c)
    /\ UNCHANGED httpVars
    /\ UNCHANGED delVars
    /\ UNCHANGED sshVars
    /\ UNCHANGED textVars
    /\ UNCHANGED listVars

\* the event loop runs every task that is ready: a task whose cancellation
\* was requested takes its next step, and a call awaiting a finished task
\* resumes. asyncio.Lock hands the lock to its waiters in the order they
\* arrived, so a waiter that finds the lock free again and again gets it.
LiveFairness ==
    /\ \A j \in FrameIds :
           /\ WF_jobVars(WorkStart(j))
           /\ WF_jobVars(WorkCancelled(j, "ok"))
    /\ \A c \in CallIds :
           /\ WF_jobVars(CancelResume(c))
           /\ SF_jobVars(LockAcquired(c))
           /\ SF_jobVars(CreateLockAcquired(c))

\* create_job, cancel_job and delete_job calls racing with job tasks, under
\* the fairness of the event loop and of the lock
SpecLive == Init /\ [][LiveNext]_vars /\ LiveFairness

ListNext ==
    /\ ListJobs
    /\ UNCHANGED httpVars
    /\ UNCHANGED delVars
    /\ UNCHANGED jobVars
    /\ UNCHANGED sshVars
    /\ UNCHANGED textVars

\* list_jobs applied to one registry
SpecList == InitList /\ [][ListNext]_vars

\* one SSHClient object serving test_connection calls
SpecSsh == Init /\ [][SshNext]_vars

\* one MarzbanClient serving _request calls
SpecRequest == InitRequest /\ [][HttpNext]_vars

\* NodeService.delete_node
SpecDelete == InitDelete /\ [][DelNext]_vars


\* =====================================================================
\* Properties
\* =====================================================================

Range(seq) == {seq[i] : i \in 1..Len(seq)}
Count(seq, x) == Cardinality({i \in 1..Len(seq) : seq[i] = x})

\* C1: once a job is Completed, Failed or Cancelled, its status, result and
\* error never change again (checked on every step of the job's task and of
\* cancel_job / delete_job).
C1_TerminalIsFrozen ==
    [][\A j \in DOMAIN job :
          job[j].status \in Terminal =>
              /\ job'[j].status = job[j].status
              /\ job'[j].result = job[j].result
              /\ job'[j].error = job[j].error]_vars

\* C2: for one job, at most one cancel_job call (those made by delete_job
\* included) returns True.
C2_OneCancelReturnsTrue ==
    \A j \in DOMAIN task : task[j].cancel_true <= 1

\* C3: one _request call issues at most max_retries HTTP requests in total,
\* the path through a 401 and the re-authentication included.
C3_AtMostMaxRetriesRequests ==
    obs.requests <= _max_retries

\* C4: a 5xx response is retried: a server error reaches the caller only
\* after max_retries attempts have been made.
C4_ServerErrorOnlyWhenExhausted ==
    (req.pc = "done" /\ req.outcome = "MarzbanServerError") =>
        req.attempt = _max_retries - 1

\* C5: the first 401 triggers exactly one re-authentication and exactly one
\* retry of the request; a 401 on the retry is fatal, with no further
\* re-authentication and no further retry.
C5_OneReauthOneRetry ==
    /\ obs.reauths <= 1
    /\ obs.after_reauth <= 1
    /\ (obs.reauths = 1 /\ obs.after_reauth = 1 /\ obs.last_response = "401") =>
           (req.pc = "done" /\ req.outcome = "MarzbanAuthError")

\* C6: a 404 response ends the call at once with a not-found error: the
\* call is over in the state that follows the response, so no request, no
\* backoff and no re-authentication comes after it.
C6_NotFoundEndsCall ==
    obs.last_response = "404" =>
        (req.pc = "done" /\ req.outcome = "MarzbanNotFoundError")

\* a 404 arrived while attempts remained, after at least one backoff
C6_Witness ==
    /\ obs.last_response = "404"
    /\ req.pc = "done"
    /\ obs.backoffs >= 1
    /\ req.attempt < _max_retries - 1

\* C7: when a provisioning step fails (and the job is not cancelled), the
\* job ends Failed with error equal to that failure's message, no later step
\* was begun, no step was begun twice, and the log holds no line of a later
\* step.
C7_FailedStepFailsJob ==
    \A j \in DOMAIN task :
        (done(task[j]) /\ task[j].failed_step # 0 /\ ~task[j].cancel_seen) =>
            /\ job[j].status = "failed"
            /\ job[j].error = task[j].failure
            /\ \A i \in 1..Len(task[j].steps) :
                  /\ task[j].steps[i] <= task[j].failed_step
                  /\ i > 1 => task[j].steps[i - 1] < task[j].steps[i]
            /\ \A i \in 1..Len(job[j].logs) : job[j].logs[i].step <= task[j].failed_step

\* C8: for an existing node the local deletion is attempted exactly once,
\* as the last thing, after the requested panel and server layers ended,
\* whatever they returned or raised; it is never attempted while a layer is
\* still in progress.
C8_LocalDeletionLastOnce ==
    /\ del.pc \notin {"idle", "done"} => "local" \notin Range(del.trace)
    /\ (del.pc = "done" /\ del.existed) =>
          /\ ~del.raised
          /\ Count(del.trace, "local") = 1
          /\ del.trace[Len(del.trace)] = "local"
          /\ del.dm => Count(del.trace, "marzban_end") = 1
          /\ del.ds => Count(del.trace, "server_end") = 1

\* both optional layers raised and the local deletion still ran
C8_Witness ==
    /\ del.pc = "done" /\ del.existed
    /\ <<"marzban", "raised">> \in Range(del.errors)
    /\ <<"server", "raised">> \in Range(del.errors)
    /\ del.trace[Len(del.trace)] = "local"
    /\ del.result.local

\* C9: the success field of the result equals its local field.
C9_SuccessIsLocal ==
    del.result.success = del.result.local

\* the local deletion succeeded while a requested layer failed
C9_Witness ==
    /\ del.pc = "done"
    /\ del.result.success
    /\ del.result.marzban = "false"

\* C10: in every returned result, marzban is null exactly when the panel
\* layer was not requested and server is null exactly when the server layer
\* was not requested.
C10_NullIffNotRequested ==
    del.pc = "done" =>
        /\ (del.result.marzban = None) <=> ~del.dm
        /\ (del.result.server = None) <=> ~del.ds

\* number of messages in errors that the given layer appended
Messages(errors, layer) ==
    Cardinality({i \in 1..Len(errors) : errors[i][1] = layer})

\* C11: in a delete_node result for an existing node, errors holds exactly
\* one message for each panel or server layer whose outcome is false and
\* none for a layer whose outcome is true or null; when the panel deletion
\* raised while server uninstall and local deletion succeeded, the result is
\* success = true, marzban = false, server = true with exactly one error.
C11_OneErrorPerFailedLayer ==
    (del.pc = "done" /\ del.existed) =>
        /\ Messages(del.errors, "marzban") = (IF del.result.marzban = "false" THEN 1 ELSE 0)
        /\ Messages(del.errors, "server") = (IF del.result.server = "false" THEN 1 ELSE 0)
        /\ (/\ <<"marzban", "raised">> \in Range(del.errors)
            /\ del.result.server = "true"
            /\ del.result.local) =>
               /\ del.result.success
               /\ del.result.marzban = "false"
               /\ Len(del.errors) = 1

\* C11 without its last conjunct: one message per failed layer, none for a
\* layer that is true or null
C11_LayerMessages ==
    (del.pc = "done" /\ del.existed) =>
        /\ Messages(del.errors, "marzban") = (IF del.result.marzban = "false" THEN 1 ELSE 0)
        /\ Messages(del.errors, "server") = (IF del.result.server = "false" THEN 1 ELSE 0)

\* C12: the task of run_job first marks the job Running; when work returns
\* with the job still Running the task marks it Completed, and when work
\* returns with the job already terminal the wrapper leaves status, result
\* and error as work set them.
C12_WrapperCompletesOnlyRunning ==
    [][\A j \in DOMAIN task :
          /\ (WorkStart(j) /\ ~task[j].must_cancel) =>
                 (job'[j].status = "running" /\ task'[j].steps = <<>>)
          /\ WorkReturns(j) =>
                 IF job[j].status = "running"
                 THEN job'[j].status = "completed"
                 ELSE /\ job'[j].status = job[j].status
                      /\ job'[j].result = job[j].result
                      /\ job'[j].error = job[j].error]_vars

\* work called job.complete(result) and returned: the result is still there
C12_Witness ==
    \E j \in DOMAIN task :
        /\ done(task[j]) /\ ~task[j].cancelled
        /\ job[j].status = "completed"
        /\ job[j].result.present
        /\ job[j].logs[Len(job[j].logs)] = Line(0, "Job completed successfully")
        /\ Count(job[j].logs, Line(0, "Job completed successfully")) = 1

\* C13: when work raises an exception, the job ends Failed with error equal
\* to the exception's message, the failure is logged on the job, and the
\* exception stays inside the task (it reaches no caller).
C13_RaisedWorkFailsJob ==
    \A j \in DOMAIN task :
        (done(task[j]) /\ task[j].failure # None) =>
            /\ job[j].status = "failed"
            /\ job[j].error = task[j].failure
            /\ Line(0, "Job failed") \in Range(job[j].logs)
            /\ task[j].exc = None /\ ~task[j].cancelled

\* C13 for work that raises while no cancellation was thrown into it
C13_RaisedWorkFailsJobUncancelled ==
    \A j \in DOMAIN task :
        (done(task[j]) /\ task[j].failure # None /\ ~task[j].cancel_seen) =>
            /\ job[j].status = "failed"
            /\ job[j].error = task[j].failure
            /\ Line(0, "Job failed") \in Range(job[j].logs)
            /\ task[j].exc = None /\ ~task[j].cancelled

\* C14: once cancel_job has returned True for a job that was Running, the
\* job's status is Cancelled, its task has terminated, and no later step of
\* the job runs: no provisioning step begins, no local node record is
\* created and the job's result is not set.
C14_CancelledJobStops ==
    [][\A j \in DOMAIN task' :
          (task'[j].cancel_true >= 1 /\ job'[j].started_at # NoTime) =>
              /\ job'[j].status = "cancelled"
              /\ task'[j].pc = "done"
              /\ (j \in DOMAIN task /\ task[j].cancel_true >= 1) =>
                     /\ task'[j].steps = task[j].steps
                     /\ task'[j].node_persisted = task[j].node_persisted
                     /\ job'[j].result = job[j].result]_vars

\* cancel_job returned True for a job cancelled in the node install step
C14_Witness ==
    \E j \in DOMAIN task :
        /\ task[j].cancel_true >= 1
        /\ task[j].cancelled
        /\ task[j].steps = <<3, 4, 5>>
        /\ job[j].status = "cancelled"
        /\ ~task[j].node_persisted

\* C15: a cancel_job call on an unknown job id or on a job that is already
\* Completed, Failed or Cancelled returns False at once: it does not
\* suspend, cancels no task and changes neither a job's fields nor the task
\* table (of the task record only the note that False was returned changes).
C15_CancelRefusedIsNoOp ==
    [][\A c \in CallIds, j \in JobIds :
          (/\ j \notin _jobs \/ job[j].status \in Terminal
           /\ CancelCall(c, j)) =>
              /\ calls'[c].pc = "returned" /\ calls'[c].value = "false"
              /\ \A b \in CallIds \ {c} : calls'[b] = calls[b]
              /\ UNCHANGED <<job, _jobs, _tasks, _lock>>
              /\ task' = IF j \in DOMAIN task
                         THEN [task EXCEPT ![j].cancel_false = TRUE] ELSE task]_vars

\* cancel_job returned False for a Completed job, which stayed as it was
C15_Witness ==
    \E j \in _jobs :
        /\ task[j].cancel_false
        /\ job[j].status = "completed"
        /\ job[j].result.present
        /\ task[j].cancel_true = 0

\* C16: no job moves from Pending directly to a terminal status: a job that
\* is Completed, Failed or Cancelled was Running earlier (it has started_at).
C16_NoPendingToTerminal ==
    [][\A j \in DOMAIN job :
          job[j].status = "pending" => job'[j].status \in {"pending", "running"}]_vars

\* C17: every job's progress is an integer in [0,100] in every state:
\* update_progress stores 0 for an input below 0, 100 for an input above
\* 100 and the input itself otherwise, and completing a job stores 100.
C17_ProgressClamped ==
    [][\A j \in DOMAIN job' :
          /\ job'[j].progress \in 0..100
          /\ j \in DOMAIN job =>
                /\ (job[j].status # "completed" /\ job'[j].status = "completed") =>
                       job'[j].progress = 100
                /\ \A p \in ProgressInputs :
                       WorkProgress(j, p) =>
                           job'[j].progress = (IF p < 0 THEN 0 ELSE IF p > 100 THEN 100 ELSE p)]_vars

\* work reported 101 and then -1: 100 and then 0 were stored
C17_Witness ==
    \E j \in DOMAIN task :
        /\ task[j].steps = <<101, -1>>
        /\ job[j].progress = 0
        /\ job[j].status = "running"

\* C18: every job returned by create_job has an id that no earlier job of
\* the registry ever had (deleted and swept jobs included), and create_job
\* never replaces an existing registry entry, also when the caller supplies
\* the job_id.
C18_JobIdsNeverReused ==
    [][\A x \in RegIds \cup {NoJobId} :
          CreateJobAs(x) =>
              /\ created_id(x) \notin DOMAIN job
              /\ created_id(x) \notin _jobs]_vars

\* C18 for generated ids only
C18_GeneratedIdsNeverReused ==
    [][CreateJobAs(NoJobId) =>
          /\ created_id(NoJobId) \notin DOMAIN job
          /\ created_id(NoJobId) \notin _jobs]_vars

\* C19: in a provisioning job, the ports sent in the panel registration
\* request, stored in the local node record and reported in the job result
\* are the ports returned by the install step, never the requested ports
\* when the two differ.
C19_ReturnedPortsDownstream ==
    \A j \in DOMAIN task :
        LET t == task[j]
        IN /\ t.row_ports # NoPorts => t.row_ports = t.ports
           /\ t.panel_ports # NoPorts => t.panel_ports = t.ports
           /\ (job[j].result.present /\ t.steps # <<>> /\ t.steps[1] = 3) =>
                  job[j].result.ports = t.ports
           /\ t.ports # NoPorts =>
                  LET clean == _strip_ansi(t.install_out)
                  IN /\ port_search(clean, "S", 1) # NoMatch =>
                            t.ports.service = port_search(clean, "S", 1)
                     /\ port_search(clean, "X", 1) # NoMatch =>
                            t.ports.api = port_search(clean, "X", 1)

\* the install printed 62060/62061 for a request of 62050/62051, and the
\* registration, the node row and the job result carry 62060/62061
C19_Witness ==
    \E j \in DOMAIN task :
        /\ task[j].ports = [service |-> 62060, api |-> 62061]
        /\ task[j].ports # RequestedPorts
        /\ task[j].panel_ports = task[j].ports
        /\ task[j].row_ports = task[j].ports
        /\ task[j].node_persisted
        /\ job[j].status = "completed"
        /\ job[j].result.ports = task[j].ports

\* C20: when the panel registration call of a provisioning job fails with
\* an error raised by the panel client (and no step fails, no cancellation
\* arrives), the job does not abort: the local node record is persisted and
\* the job ends Completed.
C20_PanelFailureDoesNotAbort ==
    \A j \in DOMAIN task :
        (/\ task[j].panel_error
         /\ task[j].failed_step = 0
         /\ ~task[j].cancel_seen /\ ~task[j].must_cancel) =>
            /\ task[j].node_persisted
            /\ job[j].status = "completed"
            /\ job[j].result.present

\* C20 up to the point where the SSH session is closed: after the failed
\* registration the record is persisted and job.complete(result) was called
C20_PanelFailureReachesCompleted ==
    \A j \in DOMAIN task :
        (/\ task[j].panel_error
         /\ task[j].failed_step = 0) =>
            /\ task[j].node_persisted
            /\ job[j].result.present
            /\ Line(0, "Job completed successfully") \in Range(job[j].logs)

\* C21: a provisioning job whose every step succeeds (and that is never
\* cancelled) ends Completed with progress 100 and a result that carries the
\* created node's id and the SSH profile id resolved before the task started.
C21_AllStepsSucceedCompletes ==
    \A j \in DOMAIN task :
        (/\ done(task[j])
         /\ task[j].steps = <<3, 4, 5, 6, 7>>
         /\ task[j].failed_step = 0
         /\ ~task[j].cancel_seen /\ ~task[j].must_cancel) =>
            /\ job[j].status = "completed"
            /\ job[j].progress = 100
            /\ job[j].result.present
            /\ job[j].result.node_id = 1
            /\ job[j].result.ssh_profile_id = task[j].ssh_profile_id

\* C21 for a job whose SSH session was also closed without an error
C21_AllStepsAndCloseSucceed ==
    \A j \in DOMAIN task :
        (/\ done(task[j])
         /\ task[j].steps = <<3, 4, 5, 6, 7>>
         /\ task[j].failed_step = 0
         /\ ~task[j].ssh_open
         /\ ~task[j].cancel_seen /\ ~task[j].must_cancel) =>
            /\ job[j].status = "completed"
            /\ job[j].progress = 100
            /\ job[j].result.present
            /\ job[j].result.node_id = 1
            /\ job[j].result.ssh_profile_id = task[j].ssh_profile_id

\* C22: every SSH session opened by a provisioning job or by the server
\* uninstall of delete_node is closed by the time that operation ends, on
\* every exit path (success, failure of a step, cancellation).
C22_SessionClosedAtEnd ==
    /\ \A j \in DOMAIN task : done(task[j]) => ~task[j].ssh_open
    /\ del.pc = "done" => ~del.ssh_open

\* C22 for operations in which close() returned without an error and no
\* cancellation was thrown into the task
C22_SessionClosedWhenCloseReturns ==
    \A j \in DOMAIN task :
        (done(task[j]) /\ ~task[j].cancel_seen /\ job[j].error # "close_error") =>
            ~task[j].ssh_open

\* C23: a cached token is treated as expired (the call authenticates before
\* it sends anything) exactly when its expiry is known and
\* now >= expires_at - 5 minutes; a token with no known expiry is never
\* treated as expired.
C23_ExpiredWithinFiveMinutes ==
    [][(req.pc = "idle" /\ req'.pc # "idle" /\ _token.present) =>
          ((req'.pc = "auth_post" \/ (req'.pc = "done" /\ obs'.requests = 0))
             <=> (_token.has_expiry /\ now >= _token.expires_at - 5 * 60))]_vars

\* a token that expires in 4 minutes made the call authenticate first
C23_Witness ==
    /\ _token = TokenInfo(TRUE, now + 4 * 60)
    /\ req.pc = "auth_post"
    /\ req.auth_for = "ensure"
    /\ obs.requests = 0

\* C24: whenever an authenticated call issues an HTTP request, the client
\* holds a token that is not expired at that moment, and a failed
\* (re-)authentication ends the call without a request being sent.
C24_RequestsCarryFreshToken ==
    [][/\ obs'.requests > obs.requests =>
             (_token'.present /\ ~is_expired(_token', now'))
       /\ (req.pc = "auth_post" /\ req'.pc = "done") =>
             obs'.requests = obs.requests]_vars

\* C24, amended: the first HTTP request of an authenticated call is issued
\* with a token that is not expired at that moment (later attempts of the
\* same call reuse it without a new check), and a failed (re-)authentication
\* ends the call without a request being sent.
C24_FirstRequestCarriesFreshToken ==
    [][/\ (obs'.requests > obs.requests /\ obs.requests = 0) =>
             (_token'.present /\ ~is_expired(_token', now'))
       /\ (req.pc = "auth_post" /\ req'.pc = "done") =>
             obs'.requests = obs.requests]_vars

\* the cached token was expired, the call authenticated and then issued its
\* first request with the new token
C24_Witness ==
    /\ req.pc = "request"
    /\ obs.auth_posts = 1 /\ obs.reauths = 0
    /\ obs.requests = 1
    /\ _token = TokenInfo(TRUE, now + TokenValiditySeconds)

\* C25: test_connection of the panel client never raises: however the
\* request ended (invalid credentials, connection failure or timeout, 5xx,
\* 404, another HTTP error) it returns a result with connected = false and
\* an error message.
C25_TestConnectionNeverRaises ==
    (req.pc = "done" /\ req.outcome # "return") =>
        LET res == test_connection(req.outcome)
        IN res.raises = None /\ res.connected = "false" /\ res.error # None

\* C25 for the two failure kinds that have an except clause
C25_AuthAndConnectionFailuresReported ==
    (req.pc = "done" /\ req.outcome \in {"MarzbanAuthError", "MarzbanConnectionError"}) =>
        LET res == test_connection(req.outcome)
        IN res.raises = None /\ res.connected = "false" /\ res.error # None

\* C26: test_connection of the SSH client never raises, and whether it
\* reports success or failure the session it opened is closed when it
\* returns (also when the probe command raised after connect succeeded).
C26_ProbeLeavesNoSession ==
    ssh.pc = "returned" =>
        /\ ssh.result.success \in {"true", "false"}
        /\ ssh.open = 0

\* C26 without the closing part: every way the three awaits can end is
\* turned into a returned tuple, and success is reported only after the
\* probe output matched and close() returned
C26_ProbeAlwaysReturnsTuple ==
    ssh.pc = "returned" =>
        /\ ssh.result.success \in {"true", "false"}
        /\ ssh.result.success = "true" => ssh.result.error = None

\* the labelled line of a port in a stripped text: the label, whitespace,
\* digits (the first such place), by direct search over the positions
LabelledAt(clean, label, i) ==
    /\ clean[i] = label
    /\ \E w \in (i + 1)..Len(clean), d \in (i + 2)..Len(clean) :
           /\ w < d
           /\ \A k \in (i + 1)..w : clean[k] = " "
           /\ \A k \in (w + 1)..d : clean[k] = "1"
HasLabelledLine(clean, label) == \E i \in 1..Len(clean) : LabelledAt(clean, label, i)

\* the number printed in the first labelled line: as many ones as the
\* line has digits
RECURSIVE Ones(_)
Ones(n) == IF n = 0 THEN 0 ELSE 10 * Ones(n - 1) + 1
PrintedNumber(clean, label) ==
    LET i == CHOOSE i \in 1..Len(clean) :
                 /\ LabelledAt(clean, label, i)
                 /\ \A k \in 1..(i - 1) : ~LabelledAt(clean, label, k)
        w == CHOOSE w \in (i + 1)..Len(clean) :
                 /\ \A k \in (i + 1)..w : clean[k] = " "
                 /\ clean[w + 1] = "1"
        n == Cardinality({d \in (w + 1)..Len(clean) : \A k \in (w + 1)..d : clean[k] = "1"})
    IN Ones(n)

\* C27: for each of the two ports independently and whatever the exit code
\* of the install command: when the stripped output has the labelled line
\* of the port, the InstallResult carries the number printed there whatever
\* port was requested; when it has not, the InstallResult carries the
\* requested port; a non-zero exit code gives a failed InstallResult that
\* carries the ports parsed this way.
C27_ParsedPortsPerLabel ==
    parse.parsed =>
        LET clean == _strip_ansi(parse.text)
        IN /\ parse.result.success = (parse.exit_code = "exit_0")
           /\ parse.result.service_port =
                  IF HasLabelledLine(clean, "S") THEN PrintedNumber(clean, "S")
                  ELSE parse.requested.service
           /\ parse.result.api_port =
                  IF HasLabelledLine(clean, "X") THEN PrintedNumber(clean, "X")
                  ELSE parse.requested.api

\* a failed install whose coloured output has the service port line and
\* no API port line: the failed result carries the printed service port
\* and the requested API port
C27_Witness ==
    /\ parse.parsed
    /\ parse.exit_code = "exit_nonzero"
    /\ parse.text = <<"E", "A", "S", " ", "1">>
    /\ parse.requested = RequestedPorts
    /\ ~parse.result.success
    /\ parse.result.service_port = 1
    /\ parse.result.api_port = RequestedPorts.api

\* C28: stripping terminal control sequences is idempotent, also for a
\* text where removing one escape sequence joins the characters around it
\* into a new escape sequence.
C28_StripIdempotent ==
    Len(parse.stripped) = 2 => parse.stripped[2] = parse.stripped[1]

\* C28 for texts whose stripped form holds no escape character
C28_StripIdempotentWithoutEscapeLeft ==
    (Len(parse.stripped) = 2 /\ "E" \notin Range(parse.stripped[1])) =>
        parse.stripped[2] = parse.stripped[1]

\* C29: once install_node has uploaded the certificate to its temporary
\* remote file, the file is deleted before install_node ends, whether the
\* install command exits with zero or not, raises or times out, or the job
\* is cancelled during the command.
C29_CertFileDeleted ==
    \A j \in DOMAIN task :
        (task[j].cert_uploaded /\ task[j].pc \notin {"install_exec", "cert_rm"}) =>
            ~task[j].cert_file

\* C29 for the runs where the install command and the rm command both
\* returned and rm exited with zero
C29_CertFileDeletedWhenRmSucceeds ==
    \A j \in DOMAIN task :
        task[j].cert_rm_exit = "exit_0" => ~task[j].cert_file

\* C30: delete_job on a known job returns true; a job that was Pending or
\* Running had its task cancelled and terminated before the entry is
\* removed; after the return get_job and get_job_status return nothing for
\* the id.  On an unknown id delete_job returns false and changes nothing.
C30_DeleteJob ==
    [][\A c \in CallIds, j \in JobIds :
          (/\ calls[c].pc # "returned" /\ calls'[c].pc = "returned"
           /\ calls'[c].op = "delete" /\ calls'[c].job = j) =>
                 IF j \in _jobs
                 THEN /\ calls'[c].value = "true"
                      /\ get_job(j)' = {} /\ get_job_status(j)' = {}
                      /\ (calls[c].pc = "await_task" \/ job[j].status \in Active) =>
                             /\ j \in _tasks => done(task[j])
                             /\ job'[j].status \in Terminal
                      /\ calls[c].pc = "await_task" =>
                             task[j].cancel_seen \/ task[j].cancelled
                 ELSE /\ calls'[c].value = "false"
                      /\ UNCHANGED <<job, _jobs, _tasks, task>>
                      /\ _lock' = 0]_vars

\* delete_job returned true for a job whose task was cancelled in the node
\* install step: the task has ended and the registry no longer has the id
C30_Witness ==
    \E c \in CallIds :
        /\ calls[c].pc = "returned" /\ calls[c].op = "delete" /\ calls[c].value = "true"
        /\ LET j == calls[c].job
           IN /\ task[j].steps = <<3, 4, 5>>
              /\ task[j].cancelled
              /\ done(task[j])
              /\ job[j].status = "cancelled"
              /\ get_job(j) = {}

\* C31: create_job runs the sweep only when the registry holds at least
\* max_jobs jobs, and the sweep removes exactly the jobs that are terminal
\* with a completion time older than the TTL: no Pending or Running job
\* and no terminal job younger than the TTL is removed.
C31_SweepRemovesOldTerminalOnly ==
    [][\A x \in RegIds \cup {NoJobId} :
          CreateJobAs(x) =>
              \A i \in _jobs \ {created_id(x)} :
                  i \notin _jobs' <=>
                      /\ Cardinality(_jobs) >= _max_jobs
                      /\ job[i].status \in {"completed", "failed", "cancelled"}
                      /\ job[i].completed_at # NoTime
                      /\ now - job[i].completed_at > _job_ttl_seconds]_vars

\* a create_job at capacity swept a job cancelled more than the TTL ago
\* and kept a job cancelled exactly the TTL ago
C31_Witness ==
    \E i \in DOMAIN job, k \in _jobs :
        /\ task[i].swept /\ i \notin _jobs
        /\ job[i].status = "cancelled"
        /\ job[k].status = "cancelled"
        /\ \E n \in _jobs :
               /\ job[n].created_at - job[k].completed_at = _job_ttl_seconds
               /\ job[n].created_at - job[i].completed_at > _job_ttl_seconds

\* C35: the registry never holds more than max_jobs jobs, after any
\* sequence of create_job, delete_job and sweeps, also when it is at
\* capacity and no job is old enough to be swept.
C35_RegistryWithinMaxJobs == Cardinality(_jobs) <= _max_jobs

\* C35 as far as the sweep goes: a create_job at capacity leaves no job in
\* the registry that the sweep is meant to remove, apart from the new one
C35_NoSweepableJobAfterCreateAtCapacity ==
    [][\A x \in RegIds \cup {NoJobId} :
          (CreateJobAs(x) /\ Cardinality(_jobs) >= _max_jobs) =>
              \A i \in _jobs' \ {created_id(x)} :
                  ~(/\ job[i].status \in Terminal
                    /\ job[i].completed_at # NoTime
                    /\ now - job[i].completed_at > _job_ttl_seconds)]_vars

\* the result lists matching jobs of the registry, no job twice, newest
\* first, and no matching job left out is newer than a listed one
ListedNewestFirst ==
    LET r == listing.result
        all == {listing.jobs[k] : k \in 1..Len(listing.jobs)}
        shown == {r[k] : k \in 1..Len(r)}
    IN /\ shown \subseteq {j \in all : matches(j, listing.job_type, listing.status)}
       /\ Cardinality(shown) = Len(r)
       /\ \A k \in 1..(Len(r) - 1) : r[k].created_at >= r[k + 1].created_at
       /\ \A j \in all \ shown :
              matches(j, listing.job_type, listing.status) =>
                  \A k \in 1..Len(r) : r[k].created_at >= j.created_at

\* C32: list_jobs returns at most limit jobs, each matching the job_type
\* and status filters, newest first by creation time: the first limit
\* entries of the filtered registry sorted by created_at descending.
C32_ListNewestFirstUpToLimit ==
    listing.listed =>
        /\ Len(listing.result) <= Max(listing.limit, 0)
        /\ ListedNewestFirst
        /\ Len(listing.result) =
              Min(Max(listing.limit, 0),
                  Cardinality({k \in 1..Len(listing.jobs) :
                                  matches(listing.jobs[k], listing.job_type, listing.status)}))

\* C32 for a limit that is not negative
C32_ListNewestFirstUpToNonNegativeLimit ==
    (listing.listed /\ listing.limit >= 0) =>
        /\ Len(listing.result) <= listing.limit
        /\ ListedNewestFirst
        /\ Len(listing.result) =
              Min(listing.limit,
                  Cardinality({k \in 1..Len(listing.jobs) :
                                  matches(listing.jobs[k], listing.job_type, listing.status)}))

\* C33: when a job becomes Failed or Cancelled, nothing else changes: the
\* fields of every other job, the membership of the other jobs in the
\* registry, and the task entries and tasks of the other jobs stay as
\* they were.
C33_FailureIsLocal ==
    [][\A j \in DOMAIN job :
          (job'[j].status \in {"failed", "cancelled"} /\ job'[j].status # job[j].status) =>
              \A k \in DOMAIN job \ {j} :
                  /\ job'[k] = job[k]
                  /\ task'[k] = task[k]
                  /\ (k \in _jobs') = (k \in _jobs)
                  /\ (k \in _tasks') = (k \in _tasks)]_vars

\* two started jobs in the registry: job 1 failed by its work raising,
\* job 2 cancelled
C33_Witness ==
    /\ DOMAIN job = {1, 2}
    /\ job[1].status = "failed" /\ job[2].status = "cancelled"
    /\ job[1].started_at # NoTime /\ job[2].started_at # NoTime
    /\ task[1].failure = "work_error"
    /\ task[2].cancelled
    /\ {1, 2} \subseteq _jobs

\* C34: when server-side uninstall is requested for a node without a
\* linked SSH profile, delete_node opens no SSH connection, reports
\* server = false, appends one error message for the server layer, and
\* goes on to the local record deletion without raising.
C34_NoProfileNoConnection ==
    (del.existed /\ del.ds /\ del.profile = NoProfile) =>
        /\ del.pc \notin {"server_connect", "server_uninstall", "server_close"}
        /\ ~del.ssh_open
        /\ del.pc = "done" =>
               /\ del.result.server = "false"
               /\ Cardinality({i \in 1..Len(del.errors) : del.errors[i][1] = "server"}) = 1
               /\ \E i \in 1..Len(del.errors) : del.errors[i] = <<"server", "no_ssh_profile">>
               /\ del.trace[Len(del.trace)] = "local"
               /\ ~del.raised

\* a node without profile, both remote layers requested: the panel entry
\* was deleted, the server layer reported its one error, the row is gone
C34_Witness ==
    /\ del.pc = "done" /\ del.existed /\ del.dm /\ del.ds
    /\ del.profile = NoProfile
    /\ del.result = [success |-> TRUE, local |-> TRUE, marzban |-> "true", server |-> "false"]
    /\ del.errors = <<<<"server", "no_ssh_profile">>>>
    /\ ~node_row.exists

IsPrefix(a, b) == Len(a) <= Len(b) /\ a = SubSeq(b, 1, Len(a))

\* C36: within one provisioning job the steps run in the order Connecting
\* (3), Ensuring CLI (4), Installing Node (5), Registering in Panel and
\* Persisting Locally (6), Complete (7), none twice or out of order, and
\* the panel registration is attempted before the local node record is
\* created.
C36_StepsInOrderPanelBeforeRow ==
    \A j \in DOMAIN task :
        /\ IsPrefix(task[j].steps, <<3, 4, 5, 6, 7>>)
        /\ task[j].access_token =>
               IsPrefix(task[j].events, <<"panel_request", "row_insert">>)

\* C36 without its last part: the numbered steps begin in order, each once
C36_StepsInOrder ==
    \A j \in DOMAIN task : IsPrefix(task[j].steps, <<3, 4, 5, 6, 7>>)

\* the provisioning step whose remote operation a task at pc is awaiting
\* (0: none)
RemoteStep(pc) ==
    CASE pc = "connect" -> 3
      [] pc \in {"cli_check", "cli_version", "cli_install", "cli_verify"} -> 4
      [] pc \in {"node_cli_check", "node_cli_install", "node_cli_verify",
                 "upload", "install_exec", "cert_rm"} -> 5
      [] pc = "panel_register" -> 6
      [] OTHER -> 0

\* what update_progress announces for a step
Announcements(step) ==
    CASE step = 3 -> {<<20, "Connecting to server">>}
      [] step = 4 -> {<<30, "Checking node-manager CLI">>, <<40, "Installing CLI">>}
      [] step = 5 -> {<<60, "Installing node">>}
      [] step = 6 -> {<<80, "Registering node in Marzban">>}
      [] OTHER -> {}

ProgressAnnounced(j) ==
    <<job[j].progress, job[j].current_step>> \in Announcements(RemoteStep(task[j].pc))

LogAnnounced(j) ==
    \E i \in 1..Len(job[j].logs) : job[j].logs[i].step = RemoteStep(task[j].pc)

\* C37: while a remote operation of a provisioning step is under way, the
\* job already shows that step's progress and current step and holds a log
\* line of that step, the CLI check step included.
C37_StepAnnouncedBeforeRemoteOperation ==
    \A j \in DOMAIN task :
        RemoteStep(task[j].pc) # 0 => ProgressAnnounced(j) /\ LogAnnounced(j)

\* C37 for what the code does announce: progress and current step for every
\* step, a log line for every step but the CLI check
C37_StepAnnouncedExceptCliCheckLog ==
    \A j \in DOMAIN task :
        RemoteStep(task[j].pc) # 0 =>
            /\ ProgressAnnounced(j)
            /\ task[j].pc \notin {"cli_check", "cli_version"} => LogAnnounced(j)

\* C38: once a job's task has ended, _tasks holds no entry for the job,
\* also when the job was cancelled or deleted before the task's first step.
C38_NoTaskEntryAfterTaskEnded ==
    \A j \in DOMAIN task : done(task[j]) => j \notin _tasks

\* C38 for the tasks that entered _wrapped_task (its finally ran)
C38_NoTaskEntryAfterStartedTaskEnded ==
    \A j \in DOMAIN task :
        done(task[j]) /\ job[j].started_at # NoTime => j \notin _tasks

\* the fields of a snapshot agree with its status
Consistent(d) ==
    /\ d.status = "completed" => d.progress = 100 /\ d.completed_at # NoTime
    /\ d.status = "failed" => d.error # None /\ d.completed_at # NoTime
    /\ d.status = "cancelled" => d.completed_at # NoTime
    /\ d.status \in Active =>
           d.completed_at = NoTime /\ d.error = None /\ d.result = NoResult
    /\ d.status \in {"running", "completed", "failed"} => d.started_at # NoTime

\* C39: every snapshot get_job_status can return is consistent: Completed
\* has progress 100 and completed_at, Failed has error and completed_at,
\* Cancelled has completed_at, Pending and Running have no completed_at,
\* error or result, and Running, Completed and Failed have started_at.
C39_SnapshotsConsistent ==
    \A j \in JobIds : \A d \in job_snapshot(j) : Consistent(d)

\* a poller reads a job that completed and then failed while its session
\* closed: Failed, with the result and the progress of the completion
C39_Witness ==
    \E j \in JobIds : \E d \in job_snapshot(j) :
        d.status = "failed" /\ d.result.present /\ d.progress = 100

\* C40: delete_job holds the lock while it awaits the task it cancelled,
\* and every create_job, delete_job and cancel_job call that is suspended
\* (waiting for the lock, or awaiting a cancelled task) eventually returns.
C40_DeleteHoldsLockAndCallsReturn ==
    /\ [](\A c \in CallIds :
             calls[c].op = "delete" /\ calls[c].pc = "await_task" => _lock = c)
    /\ \A c \in CallIds :
           (calls[c].pc \in {"lock_wait", "await_task"}) ~> (calls[c].pc = "returned")

\* a delete_job call awaits its task with the lock held while a create_job
\* call waits for the lock
C40_Witness ==
    \E c \in CallIds, b \in CallIds :
        /\ calls[c].op = "delete" /\ calls[c].pc = "await_task" /\ _lock = c
        /\ calls[b].op = "create" /\ calls[b].pc = "lock_wait"

====
